---------------------------- MODULE Spec2Model ----------------------------
(***************************************************************************)
(* Model of the NBA player-prop betting tools:                             *)
(*   src/betting_new.py  NBAPlayerPropAnalyzer and PropAnalyzerGUI         *)
(*   src/betting_gui.py  NBAStatPredictorApp                               *)
(*   src/betting.py      predict_weighted_player_stat                      *)
(*                                                                         *)
(* Numbers are exact rationals <<numerator, denominator>> in lowest terms  *)
(* with a positive denominator; NaN (pandas' mean of nothing) is <<0, 0>>. *)
(***************************************************************************)
EXTENDS Integers, Sequences, FiniteSets, TLC

----------------------------------------------------------------------------
(* Rational arithmetic with NaN, as the Python/numpy float operations the  *)
(* code uses behave on the values of the model.                            *)

Abs(x) == IF x < 0 THEN -x ELSE x

RECURSIVE GCD(_, _)
GCD(a, b) == IF b = 0 THEN a ELSE GCD(b, a % b)

NaN == <<0, 0>>

IsNaN(a) == a[2] = 0

Rat(n, d) ==
    IF d = 0 THEN NaN
    ELSE LET g == GCD(Abs(n), Abs(d))
             s == IF d < 0 THEN -1 ELSE 1
         IN  <<(s * n) \div g, (s * d) \div g>>

R(n) == <<n, 1>>

RNeg(a) == IF IsNaN(a) THEN NaN ELSE <<-a[1], a[2]>>

RAdd(a, b) ==
    IF IsNaN(a) \/ IsNaN(b) THEN NaN
    ELSE LET g == GCD(a[2], b[2])
             l == (a[2] \div g) * b[2]
         IN  Rat(a[1] * (l \div a[2]) + b[1] * (l \div b[2]), l)

RSub(a, b) == RAdd(a, RNeg(b))

RMul(a, b) ==
    IF IsNaN(a) \/ IsNaN(b) THEN NaN
    ELSE LET g1 == GCD(Abs(a[1]), b[2])
             g2 == GCD(Abs(b[1]), a[2])
         IN  Rat((a[1] \div g1) * (b[1] \div g2), (a[2] \div g2) * (b[2] \div g1))

\* a / b for b # 0; the callers decide what a zero divisor does in Python.
RDiv(a, b) ==
    IF IsNaN(a) \/ IsNaN(b) THEN NaN
    ELSE RMul(a, Rat(b[2], b[1]))

IsZero(a) == ~IsNaN(a) /\ a[1] = 0

\* Comparisons: every comparison with NaN is False, as in IEEE arithmetic.
RLt(a, b) == ~IsNaN(a) /\ ~IsNaN(b) /\ RSub(a, b)[1] < 0

RGt(a, b) == RLt(b, a)

RLe(a, b) == ~IsNaN(a) /\ ~IsNaN(b) /\ RSub(a, b)[1] <= 0

RGe(a, b) == RLe(b, a)

\* Python's max(a, b): b only when b > a, so the first argument wins ties and NaN.
PyMax(a, b) == IF RGt(b, a) THEN b ELSE a

\* Python's min(a, b): b only when b < a.
PyMin(a, b) == IF RLt(b, a) THEN b ELSE a

RECURSIVE RSum(_)
RSum(s) == IF s = <<>> THEN R(0) ELSE RAdd(Head(s), RSum(Tail(s)))

\* pandas' head(n)
HeadN(s, n) == IF Len(s) <= n THEN s ELSE SubSeq(s, 1, n)

\* pandas/numpy mean: NaN for an empty series
RMean(s) == IF s = <<>> THEN NaN ELSE RDiv(RSum(s), R(Len(s)))


RECURSIVE Insert(_, _)
Insert(x, s) ==
    IF s = <<>> THEN <<x>>
    ELSE IF RLe(x, Head(s)) THEN <<x>> \o s
    ELSE <<Head(s)>> \o Insert(x, Tail(s))

RECURSIVE Sort(_)
Sort(s) == IF s = <<>> THEN <<>> ELSE Insert(Head(s), Sort(Tail(s)))

AnyNaN(s) == \E i \in 1..Len(s) : IsNaN(s[i])

\* numpy.median: the middle of the sorted sample, NaN when a sample is NaN
Median(s) ==
    IF AnyNaN(s) THEN NaN
    ELSE LET t == Sort(s)
             n == Len(s)
         IN  IF n % 2 = 1 THEN t[(n + 1) \div 2]
             ELSE RDiv(RAdd(t[n \div 2], t[n \div 2 + 1]), R(2))

\* numpy.percentile(s, 100 * pn / pd), linear interpolation between the
\* sorted samples at position (n - 1) * pn / pd
Percentile(s, pn, pd) ==
    IF AnyNaN(s) THEN NaN
    ELSE LET t == Sort(s)
             n == Len(s)
             lo == ((n - 1) * pn) \div pd
             frac == Rat((n - 1) * pn - lo * pd, pd)
         IN  IF lo + 1 >= n THEN t[n]
             ELSE RAdd(t[lo + 1], RMul(frac, RSub(t[lo + 2], t[lo + 1])))

----------------------------------------------------------------------------
(* NBAPlayerPropAnalyzer: the Monte Carlo simulator and the edge           *)
(* calculator (src/betting_new.py).                                        *)

\* What a call hands back: a value, or an exception that propagates.
Return(v) == [kind |-> "return", value |-> v]

Raise(e) == [kind |-> "raise", error |-> e]

\* numpy.random.normal(loc, scale, n): loc + scale * z[i] for standard
\* normal draws z[i]; the draws are the nondeterministic input.
normal(loc, scale, z) == [i \in 1..Len(z) |-> RAdd(loc, RMul(scale, R(z[i])))]

\* (simulations > prop_line).sum()
CountOver(simulations, prop_line) ==
    Cardinality({i \in 1..Len(simulations) : RGt(simulations[i], prop_line)})

CountBelow(simulations, prop_line) ==
    Cardinality({i \in 1..Len(simulations) : RLt(simulations[i], prop_line)})

\* A variant that counts the under side on its own instead of taking the
\* complement: a sample equal to the line is then on neither side.
mc_summary_two_counts(simulations, prop_line, num_simulations) ==
    [over_probability |-> Rat(CountOver(simulations, prop_line), num_simulations),
     under_probability |-> Rat(CountBelow(simulations, prop_line), num_simulations),
     expected_value |-> RMean(simulations),
     median_value |-> Median(simulations),
     ci_95_lower |-> Percentile(simulations, 25, 1000),
     ci_95_upper |-> Percentile(simulations, 975, 1000),
     simulations |-> simulations]

\* A variant whose comparison with the line is >=: a sample equal to the
\* line counts as over.
mc_summary_ties_over(simulations, prop_line, num_simulations) ==
    [over_probability |-> Rat(Len(simulations) - CountBelow(simulations, prop_line), num_simulations),
     under_probability |-> Rat(CountBelow(simulations, prop_line), num_simulations),
     expected_value |-> RMean(simulations),
     median_value |-> Median(simulations),
     ci_95_lower |-> Percentile(simulations, 25, 1000),
     ci_95_upper |-> Percentile(simulations, 975, 1000),
     simulations |-> simulations]

\* run_monte_carlo_simulation, from the drawn sample to the returned dict
mc_summary(simulations, prop_line, num_simulations) ==
    LET over_prob == Rat(CountOver(simulations, prop_line), num_simulations)
        under_prob == RSub(R(1), over_prob)
    IN  [over_probability |-> over_prob,
         under_probability |-> under_prob,
         expected_value |-> RMean(simulations),
         median_value |-> Median(simulations),
         ci_95_lower |-> Percentile(simulations, 25, 1000),
         ci_95_upper |-> Percentile(simulations, 975, 1000),
         simulations |-> simulations]

\* z holds the num_simulations standard normal draws of this call.
run_monte_carlo_simulation(predicted_value, std_dev, prop_line, z) ==
    LET adjusted_std == RMul(std_dev, Rat(11, 10))
        simulations == normal(predicted_value, adjusted_std, z)
    IN  mc_summary(simulations, prop_line, Len(z))

\* The divisor of line 345 is zero: Python raises ZeroDivisionError.
american_to_decimal_raises(odds) == ~(odds > 0) /\ Abs(odds) = 0

\* A conversion that forgets the abs() of line 345.
american_to_decimal_signed(odds) ==
    IF odds > 0 THEN RAdd(Rat(odds, 100), R(1))
    ELSE RAdd(Rat(100, odds), R(1))

american_to_decimal(odds) ==
    IF odds > 0 THEN RAdd(Rat(odds, 100), R(1))
    ELSE RAdd(Rat(100, Abs(odds)), R(1))

\* The adjustments in another order: the home/away factor is applied
\* before the hot/cold term is added.
predicted_value_of_home_first(features) ==
    LET p0 == features.recent_avg_5
        def_adjustment == RDiv(RSub(R(115), features.opp_def_rating), R(100))
        p1 == RMul(p0, RAdd(R(1), RMul(def_adjustment, Rat(1, 10))))
        pace_adjustment == RDiv(RSub(features.opp_pace, R(99)), R(100))
        p2 == RMul(p1, RAdd(R(1), RMul(pace_adjustment, Rat(5, 100))))
        p3 == IF features.home_away = 1 THEN RMul(p2, Rat(102, 100))
              ELSE RMul(p2, Rat(98, 100))
    IN  RAdd(p3, RMul(features.hot_cold_factor, Rat(1, 2)))

\* The point prediction, lines 316-335
predicted_value_of(features) ==
    LET p0 == features.recent_avg_5
        def_adjustment == RDiv(RSub(R(115), features.opp_def_rating), R(100))
        p1 == RMul(p0, RAdd(R(1), RMul(def_adjustment, Rat(1, 10))))
        pace_adjustment == RDiv(RSub(features.opp_pace, R(99)), R(100))
        p2 == RMul(p1, RAdd(R(1), RMul(pace_adjustment, Rat(5, 100))))
        p3 == RAdd(p2, RMul(features.hot_cold_factor, Rat(1, 2)))
    IN  IF features.home_away = 1 THEN RMul(p3, Rat(102, 100))
        ELSE RMul(p3, Rat(98, 100))

\* A Kelly stake without the floor at zero.
kelly_unfloored(edge, decimal_odds) ==
    RDiv(RMul(Rat(25, 100), edge), RSub(decimal_odds, R(1)))

\* max(0, kelly_fraction * edge / (decimal_odds - 1)), lines 359-361
kelly(edge, decimal_odds) ==
    PyMax(R(0), RDiv(RMul(Rat(25, 100), edge), RSub(decimal_odds, R(1))))

min_edge == Rat(5, 100)

\* A decision rule that lets a side win a tie of the two edges.
choose_bet_ties(edge_over, edge_under) ==
    IF RGt(edge_over, min_edge) /\ RGe(edge_over, edge_under) THEN "OVER"
    ELSE IF RGt(edge_under, min_edge) /\ RGe(edge_under, edge_over) THEN "UNDER"
    ELSE "NO BET"

\* A decision rule without the minimum edge.
choose_bet_no_minimum(edge_over, edge_under) ==
    IF RGt(edge_over, edge_under) THEN "OVER"
    ELSE IF RGt(edge_under, edge_over) THEN "UNDER"
    ELSE "NO BET"

\* The if / elif / else of lines 376-390
choose_bet(edge_over, edge_under) ==
    IF RGt(edge_over, min_edge) /\ RGt(edge_over, edge_under) THEN "OVER"
    ELSE IF RGt(edge_under, min_edge) /\ RGt(edge_under, edge_over) THEN "UNDER"
    ELSE "NO BET"

\* A confidence score without the cap at 5.
confidence_uncapped(bet, edge_over, edge_under) ==
    IF bet = "OVER" THEN RMul(edge_over, R(10))
    ELSE IF bet = "UNDER" THEN RMul(edge_under, R(10))
    ELSE R(0)

\* recommendation['confidence'], lines 378, 383 and 388
confidence(bet, edge_over, edge_under) ==
    IF bet = "OVER" THEN PyMin(RMul(edge_over, R(10)), R(5))
    ELSE IF bet = "UNDER" THEN PyMin(RMul(edge_under, R(10)), R(5))
    ELSE R(0)

calculate_betting_recommendation(features, prop_line, betting_odds_over, betting_odds_under, z) ==
    LET predicted_value == predicted_value_of(features)
        mc_results == run_monte_carlo_simulation(predicted_value,
                          features.std_dev, prop_line, z)
        decimal_odds_over == american_to_decimal(betting_odds_over)
        decimal_odds_under == american_to_decimal(betting_odds_under)
        implied_prob_over == RDiv(R(1), decimal_odds_over)
        implied_prob_under == RDiv(R(1), decimal_odds_under)
        edge_over == RSub(mc_results.over_probability, implied_prob_over)
        edge_under == RSub(mc_results.under_probability, implied_prob_under)
        kelly_over == kelly(edge_over, decimal_odds_over)
        kelly_under == kelly(edge_under, decimal_odds_under)
        bet == choose_bet(edge_over, edge_under)
        recommendation ==
            [predicted_value |-> predicted_value,
             prop_line |-> prop_line,
             edge_over |-> edge_over,
             edge_under |-> edge_under,
             kelly_over |-> kelly_over,
             kelly_under |-> kelly_under,
             mc_results |-> mc_results,
             bet |-> bet,
             confidence |-> confidence(bet, edge_over, edge_under),
             edge |->
                 IF bet = "OVER" THEN edge_over
                 ELSE IF bet = "UNDER" THEN edge_under
                 ELSE PyMax(edge_over, edge_under),
             kelly_size |->
                 IF bet = "OVER" THEN kelly_over
                 ELSE IF bet = "UNDER" THEN kelly_under
                 ELSE R(0)]
    IN  IF american_to_decimal_raises(betting_odds_over)
           \/ american_to_decimal_raises(betting_odds_under)
        THEN Raise("ZeroDivisionError")
        ELSE Return(recommendation)

----------------------------------------------------------------------------
(* Strings are sequences of one-character strings, so that strip, upper,   *)
(* lower, len and `in` can be computed as Python computes them.            *)

LowerChar(c) ==
    CASE c = "A" -> "a"
      [] c = "B" -> "b"
      [] c = "C" -> "c"
      [] c = "D" -> "d"
      [] c = "E" -> "e"
      [] c = "F" -> "f"
      [] c = "G" -> "g"
      [] c = "H" -> "h"
      [] c = "I" -> "i"
      [] c = "J" -> "j"
      [] c = "K" -> "k"
      [] c = "L" -> "l"
      [] c = "M" -> "m"
      [] c = "N" -> "n"
      [] c = "O" -> "o"
      [] c = "P" -> "p"
      [] c = "Q" -> "q"
      [] c = "R" -> "r"
      [] c = "S" -> "s"
      [] c = "T" -> "t"
      [] c = "U" -> "u"
      [] c = "V" -> "v"
      [] c = "W" -> "w"
      [] c = "X" -> "x"
      [] c = "Y" -> "y"
      [] c = "Z" -> "z"
      [] OTHER -> c

UpperChar(c) ==
    CASE c = "a" -> "A"
      [] c = "b" -> "B"
      [] c = "c" -> "C"
      [] c = "d" -> "D"
      [] c = "e" -> "E"
      [] c = "f" -> "F"
      [] c = "g" -> "G"
      [] c = "h" -> "H"
      [] c = "i" -> "I"
      [] c = "j" -> "J"
      [] c = "k" -> "K"
      [] c = "l" -> "L"
      [] c = "m" -> "M"
      [] c = "n" -> "N"
      [] c = "o" -> "O"
      [] c = "p" -> "P"
      [] c = "q" -> "Q"
      [] c = "r" -> "R"
      [] c = "s" -> "S"
      [] c = "t" -> "T"
      [] c = "u" -> "U"
      [] c = "v" -> "V"
      [] c = "w" -> "W"
      [] c = "x" -> "X"
      [] c = "y" -> "Y"
      [] c = "z" -> "Z"
      [] OTHER -> c

lower(s) == [i \in 1..Len(s) |-> LowerChar(s[i])]

upper(s) == [i \in 1..Len(s) |-> UpperChar(s[i])]

RECURSIVE LStrip(_)
LStrip(s) == IF s # <<>> /\ Head(s) = " " THEN LStrip(Tail(s)) ELSE s

RECURSIVE RStrip(_)
RStrip(s) ==
    IF s # <<>> /\ s[Len(s)] = " " THEN RStrip(SubSeq(s, 1, Len(s) - 1)) ELSE s

strip(s) == RStrip(LStrip(s))

\* Python's `a in b` for strings
IsSubstring(a, b) ==
    \E i \in 0..(Len(b) - Len(a)) : SubSeq(b, i + 1, i + Len(a)) = a

None == [kind |-> "None"]

\* A Python str value
Str(s) == [kind |-> "str", s |-> s]

\* nba_api's static team table, teams.get_teams(): four of its rows, in
\* the table's order
all_teams ==
    <<[id |-> 1, abbreviation |-> <<"B", "O", "S">>,
       full_name |-> <<"B", "o", "s", "t", "o", "n", " ", "C", "e", "l", "t", "i", "c", "s">>,
       nickname |-> <<"C", "e", "l", "t", "i", "c", "s">>,
       city |-> <<"B", "o", "s", "t", "o", "n">>],
      [id |-> 2, abbreviation |-> <<"L", "A", "L">>,
       full_name |-> <<"L", "o", "s", " ", "A", "n", "g", "e", "l", "e", "s", " ", "L", "a", "k", "e", "r", "s">>,
       nickname |-> <<"L", "a", "k", "e", "r", "s">>,
       city |-> <<"L", "o", "s", " ", "A", "n", "g", "e", "l", "e", "s">>],
      [id |-> 3, abbreviation |-> <<"B", "K", "N">>,
       full_name |-> <<"B", "r", "o", "o", "k", "l", "y", "n", " ", "N", "e", "t", "s">>,
       nickname |-> <<"N", "e", "t", "s">>,
       city |-> <<"B", "r", "o", "o", "k", "l", "y", "n">>],
      [id |-> 4, abbreviation |-> <<"C", "H", "A">>,
       full_name |-> <<"C", "h", "a", "r", "l", "o", "t", "t", "e", " ", "H", "o", "r", "n", "e", "t", "s">>,
       nickname |-> <<"H", "o", "r", "n", "e", "t", "s">>,
       city |-> <<"C", "h", "a", "r", "l", "o", "t", "t", "e">>]>>

\* teams.find_teams_by_full_name / find_teams_by_nickname: the rows whose
\* field contains the text, ignoring case, in table order
find_teams_by_full_name(raw) ==
    LET Hit(t) == IsSubstring(lower(raw), lower(t.full_name))
    IN  SelectSeq(all_teams, Hit)

find_teams_by_nickname(raw) ==
    LET Hit(t) == IsSubstring(lower(raw), lower(t.nickname))
    IN  SelectSeq(all_teams, Hit)

score_team(t, raw_lower) ==
    LET full == lower(t.full_name)
        nick == lower(t.nickname)
        city == lower(t.city)
        abbr == lower(t.abbreviation)
    IN  IF full = raw_lower THEN 100
        ELSE IF abbr = raw_lower THEN 95
        ELSE IF nick = raw_lower THEN 90
        ELSE IF IsSubstring(raw_lower, full) THEN 80
        ELSE IF IsSubstring(raw_lower, nick) THEN 70
        ELSE IF IsSubstring(raw_lower, city) THEN 60
        ELSE 0

\* The candidate of the lowest score instead
RECURSIVE MaxByScore_lowest(_, _)
MaxByScore_lowest(candidates, raw_lower) ==
    IF Len(candidates) = 1 THEN Head(candidates)
    ELSE LET rest == MaxByScore_lowest(Tail(candidates), raw_lower)
         IN  IF score_team(rest, raw_lower) < score_team(Head(candidates), raw_lower)
             THEN rest ELSE Head(candidates)

\* Python's max(candidates, key=...): the first candidate of the best score
RECURSIVE MaxByScore(_, _)
MaxByScore(candidates, raw_lower) ==
    IF Len(candidates) = 1 THEN Head(candidates)
    ELSE LET rest == MaxByScore(Tail(candidates), raw_lower)
         IN  IF score_team(rest, raw_lower) > score_team(Head(candidates), raw_lower)
             THEN rest ELSE Head(candidates)

Resolved(t) ==
    [kind |-> "team", team_id |-> t.id, abbr |-> upper(t.abbreviation),
     full_name |-> t.full_name]

\* NBAPlayerPropAnalyzer._resolve_team; team_input = None is the value None
resolve_team(team_input) ==
    IF team_input = None THEN None
    ELSE LET raw == strip(team_input.s)
             abbr_hits == SelectSeq(all_teams,
                              LAMBDA t : upper(t.abbreviation) = upper(raw))
             found == find_teams_by_full_name(raw) \o find_teams_by_nickname(raw)
             candidates == IF found = <<>> THEN all_teams ELSE found
             best == MaxByScore(candidates, lower(raw))
         IN  IF raw = <<>> THEN None
             ELSE IF Len(raw) = 3 /\ abbr_hits # <<>> THEN Resolved(Head(abbr_hits))
             ELSE IF score_team(best, lower(raw)) > 0 THEN Resolved(best)
             ELSE None

----------------------------------------------------------------------------
(* NBAPlayerPropAnalyzer: the game-log lookups, the trend estimator and    *)
(* the feature extractor (src/betting_new.py).                             *)

\* A pandas DataFrame of game rows, most recent first
DataFrame(rows) == [kind |-> "df", rows |-> rows]

\* nba_api's static player table: the names find_players_by_full_name finds
known_players == {"LeBron James"}

\* get_player_recent_games; season_log is what PlayerGameLog returns and
\* fetch tells whether that request raises. num_games = 0 stands for None.
get_player_recent_games(player_name, num_games, season_log, fetch) ==
    IF player_name \notin known_players THEN None
    ELSE IF fetch = "raises" THEN None
    ELSE IF num_games = 0 THEN DataFrame(season_log)
    ELSE DataFrame(HeadN(season_log, num_games))

\* game_log[stat_column] as a sequence of numbers
Column(rows, col) == [i \in 1..Len(rows) |-> R(rows[i][col])]

weights == <<Rat(35, 100), Rat(25, 100), Rat(20, 100), Rat(15, 100), Rat(5, 100)>>

\* numpy.average(values, weights=w)
Average(values, w) ==
    RDiv(RSum([i \in 1..Len(values) |-> RMul(values[i], w[i])]), RSum(w))

\* calculate_recent_trend without line 184: the truncated weights are used
\* as they are
calculate_recent_trend_unnormalised(game_log, values) ==
    IF game_log = None \/ Len(values) = 0 THEN R(0)
    ELSE LET recent_stats == HeadN(values, 5)
             w0 == HeadN(weights, Len(recent_stats))
         IN  RSum([i \in 1..Len(recent_stats) |-> RMul(recent_stats[i], w0[i])])

\* calculate_recent_trend on the column `values` of game_log
calculate_recent_trend(game_log, values) ==
    IF game_log = None \/ Len(values) = 0 THEN R(0)
    ELSE LET recent_stats == HeadN(values, 5)
             w0 == HeadN(weights, Len(recent_stats))
             w == [i \in 1..Len(w0) |-> RDiv(w0[i], RSum(w0))]
         IN  Average(recent_stats, w)

SqrtScale == 10

\* The least r with (r / SqrtScale)^2 >= q, searched upwards from r
RECURSIVE RootUp(_, _)
RootUp(q, r) ==
    IF r * r * q[2] >= SqrtScale * SqrtScale * q[1] THEN r ELSE RootUp(q, r + 1)

\* numpy's sqrt of q >= 0, exact when the root is a multiple of 1/SqrtScale
\* and otherwise rounded up to the next one (a float rounds as well).
RSqrt(q) == IF IsNaN(q) THEN NaN ELSE Rat(RootUp(q, 0), SqrtScale)

\* The population standard deviation (ddof = 0), numpy's default and not
\* pandas'
StdPopulation(values) ==
    IF Len(values) < 1 THEN NaN
    ELSE LET m == RMean(values)
             sq == [i \in 1..Len(values) |->
                       RMul(RSub(values[i], m), RSub(values[i], m))]
         IN  RSqrt(RDiv(RSum(sq), R(Len(values))))

\* pandas Series.std(): the sample standard deviation (ddof = 1)
Std(values) ==
    IF Len(values) < 2 THEN NaN
    ELSE LET m == RMean(values)
             sq == [i \in 1..Len(values) |->
                       RMul(RSub(values[i], m), RSub(values[i], m))]
         IN  RSqrt(RDiv(RSum(sq), R(Len(values) - 1)))

\* calculate_variance on the column `values` of game_log
calculate_variance(game_log, values) ==
    IF game_log = None \/ Len(values) < 3 THEN R(5)
    ELSE Std(HeadN(values, 10))

\* stat_mapping.get(key, 'PTS'): the column, or the list of columns, of a
\* stat type; a key the dict does not hold gets the default 'PTS'
stat_mapping_get(key) ==
    CASE key = <<"p", "o", "i", "n", "t", "s">> ->
        [is_list |-> FALSE, cols |-> <<"PTS">>]
      [] key = <<"r", "e", "b", "o", "u", "n", "d", "s">> ->
        [is_list |-> FALSE, cols |-> <<"REB">>]
      [] key = <<"a", "s", "s", "i", "s", "t", "s">> ->
        [is_list |-> FALSE, cols |-> <<"AST">>]
      [] key = <<"t", "h", "r", "e", "e", "s">> ->
        [is_list |-> FALSE, cols |-> <<"FG3M">>]
      [] key = <<"p", "t", "s", "+", "r", "e", "b", "s">> ->
        [is_list |-> TRUE, cols |-> <<"PTS", "REB">>]
      [] key = <<"p", "t", "s", "+", "a", "s", "t", "s">> ->
        [is_list |-> TRUE, cols |-> <<"PTS", "AST">>]
      [] key = <<"r", "e", "b", "s", "+", "a", "s", "t", "s">> ->
        [is_list |-> TRUE, cols |-> <<"REB", "AST">>]
      [] OTHER -> [is_list |-> FALSE, cols |-> <<"PTS">>]

\* TARGET_STAT taken from the first mapped column alone
TARGET_STAT_first_column(rows, stat_col) ==
    [i \in 1..Len(rows) |-> R(rows[i][stat_col.cols[1]])]

\* The TARGET_STAT column of lines 220-226: the row-wise sum of the mapped
\* columns of a combined stat, the mapped column of a single one
TARGET_STAT(rows, stat_col) ==
    [i \in 1..Len(rows) |->
        RSum([j \in 1..Len(stat_col.cols) |-> R(rows[i][stat_col.cols[j]])])]

\* LeagueDashTeamStats' reply: "raises", or the table's rows; a column the
\* table lacks, or a value that is no number, reads as NaN (_num)
FindRow(table, resolved) ==
    LET by_id == SelectSeq(table, LAMBDA r : r.TEAM_ID = resolved.team_id)
        by_abbr == SelectSeq(table,
                       LAMBDA r : upper(r.TEAM_ABBREVIATION) = resolved.abbr)
    IN  IF by_id # <<>> THEN by_id ELSE by_abbr

\* get_team_defense_stats once the team is resolved, lines 117-175
team_defense_stats_of(resolved, team_stats) ==
    LET team_data == FindRow(team_stats.rows, resolved)
        row == Head(team_data)
        opp_pts == IF IsNaN(row.OPP_PTS) /\ ~IsNaN(row.DEF_RATING) /\ ~IsNaN(row.PACE)
                   THEN RDiv(RMul(row.DEF_RATING, row.PACE), R(100))
                   ELSE row.OPP_PTS
    IN  IF resolved = None THEN None
        ELSE IF team_stats.kind = "raises" THEN None
        ELSE IF team_data = <<>> THEN None
        ELSE [kind |-> "dict",
              opp_def_rating |-> IF ~IsNaN(row.DEF_RATING) THEN row.DEF_RATING ELSE R(112),
              opp_pace |-> IF ~IsNaN(row.PACE) THEN row.PACE ELSE R(99),
              opp_pts_allowed |-> IF ~IsNaN(opp_pts) THEN opp_pts ELSE R(112),
              opp_team_abbr_resolved |-> resolved.abbr,
              opp_team_name_resolved |-> resolved.full_name]

get_team_defense_stats(team_input, team_stats) ==
    team_defense_stats_of(resolve_team(team_input), team_stats)

\* Opponent entries whose fallback takes the baseline of the defensive
\* adjustment (115) for the default rating.
opponent_features_baseline(opponent_team, opponent_stats, resolved) ==
    IF opponent_stats # None
    THEN [opp_def_rating |-> opponent_stats.opp_def_rating,
          opp_pace |-> opponent_stats.opp_pace,
          opp_pts_allowed |-> opponent_stats.opp_pts_allowed,
          opp_team_abbr_resolved |-> opponent_stats.opp_team_abbr_resolved,
          opp_team_name_resolved |-> opponent_stats.opp_team_name_resolved]
    ELSE [opp_def_rating |-> R(115),
          opp_pace |-> R(99),
          opp_pts_allowed |-> R(112),
          opp_team_abbr_resolved |-> <<>>,
          opp_team_name_resolved |-> <<>>]

\* The opponent entries of the features, lines 239-256: the looked-up
\* stats, or the defaults with what resolve_team made of the input
opponent_features(opponent_team, opponent_stats, resolved) ==
    IF opponent_stats # None
    THEN [opp_def_rating |-> opponent_stats.opp_def_rating,
          opp_pace |-> opponent_stats.opp_pace,
          opp_pts_allowed |-> opponent_stats.opp_pts_allowed,
          opp_team_abbr_resolved |-> opponent_stats.opp_team_abbr_resolved,
          opp_team_name_resolved |-> opponent_stats.opp_team_name_resolved]
    ELSE [opp_def_rating |-> R(112),
          opp_pace |-> R(99),
          opp_pts_allowed |-> R(112),
          opp_team_abbr_resolved |->
              IF resolved # None THEN resolved.abbr
              ELSE IF opponent_team = None THEN <<"N", "O", "N", "E">>
              ELSE upper(strip(opponent_team.s)),
          opp_team_name_resolved |->
              IF resolved # None THEN resolved.full_name ELSE <<>>]

\* The features dict with season_avg and games_played taken from the
\* 15-game window
features_dict_recent_window(target_recent, target_full, minutes, recent_avg_5, std_dev, home_away, opp) ==
    [recent_avg_5 |-> recent_avg_5,
     recent_avg_10 |-> RMean(HeadN(target_recent, 10)),
     season_avg |-> RMean(target_recent),
     games_played |-> Len(target_recent),
     std_dev |-> std_dev,
     recent_min_avg |-> RMean(HeadN(minutes, 5)),
     home_away |-> IF upper(home_away.s) = <<"H", "O", "M", "E">> THEN 1 ELSE 0,
     opp_def_rating |-> opp.opp_def_rating,
     opp_pace |-> opp.opp_pace,
     opp_pts_allowed |-> opp.opp_pts_allowed,
     opp_team_abbr_resolved |-> opp.opp_team_abbr_resolved,
     opp_team_name_resolved |-> opp.opp_team_name_resolved,
     hot_cold_factor |->
         RDiv(RSub(RMean(HeadN(target_recent, 3)), RMean(target_full)),
              RAdd(std_dev, R(1)))]

\* The features dict without the + 1 of line 260
features_dict_unguarded(target_recent, target_full, minutes, recent_avg_5, std_dev, home_away, opp) ==
    [recent_avg_5 |-> recent_avg_5,
     recent_avg_10 |-> RMean(HeadN(target_recent, 10)),
     season_avg |-> RMean(target_full),
     games_played |-> Len(target_full),
     std_dev |-> std_dev,
     recent_min_avg |-> RMean(HeadN(minutes, 5)),
     home_away |-> IF upper(home_away.s) = <<"H", "O", "M", "E">> THEN 1 ELSE 0,
     opp_def_rating |-> opp.opp_def_rating,
     opp_pace |-> opp.opp_pace,
     opp_pts_allowed |-> opp.opp_pts_allowed,
     opp_team_abbr_resolved |-> opp.opp_team_abbr_resolved,
     opp_team_name_resolved |-> opp.opp_team_name_resolved,
     hot_cold_factor |->
         RDiv(RSub(RMean(HeadN(target_recent, 3)), RMean(target_full)),
              std_dev)]

\* The features dict of lines 229-260, from the TARGET_STAT columns of the
\* two game logs, the std_dev and the opponent entries
features_dict(target_recent, target_full, minutes, recent_avg_5, std_dev, home_away, opp) ==
    [recent_avg_5 |-> recent_avg_5,
     recent_avg_10 |-> RMean(HeadN(target_recent, 10)),
     season_avg |-> RMean(target_full),
     games_played |-> Len(target_full),
     std_dev |-> std_dev,
     recent_min_avg |-> RMean(HeadN(minutes, 5)),
     home_away |-> IF upper(home_away.s) = <<"H", "O", "M", "E">> THEN 1 ELSE 0,
     opp_def_rating |-> opp.opp_def_rating,
     opp_pace |-> opp.opp_pace,
     opp_pts_allowed |-> opp.opp_pts_allowed,
     opp_team_abbr_resolved |-> opp.opp_team_abbr_resolved,
     opp_team_name_resolved |-> opp.opp_team_name_resolved,
     hot_cold_factor |->
         RDiv(RSub(RMean(HeadN(target_recent, 3)), RMean(target_full)),
              RAdd(std_dev, R(1)))]

\* game_log['TARGET_STAT'] = target (lines 221 and 225): the frame with
\* the column added
assign(game_log, target) ==
    DataFrame([i \in 1..Len(game_log.rows) |->
                  game_log.rows[i] @@ ("TARGET_STAT" :> target[i])])

\* engineer_features from line 203 on, the two game logs fetched
features_of(game_log_recent, game_log_full, stat_col, target_recent, target_full, home_away, opp) ==
    IF game_log_recent = None \/ game_log_full = None THEN Return(None)
    ELSE Return([kind |-> "tuple",
                 features |->
                     features_dict(target_recent, target_full,
                         Column(game_log_recent.rows, "MIN"),
                         calculate_recent_trend(game_log_recent, target_recent),
                         calculate_variance(game_log_recent, target_recent),
                         home_away, opp),
                 game_log_recent |-> assign(game_log_recent, target_recent),
                 stat_col |-> IF stat_col.is_list THEN "TARGET_STAT"
                              ELSE stat_col.cols[1]])

\* The TARGET_STAT column of a fetched game log (of no rows when the fetch
\* gave None and the call returns before it is read)
target_of(game_log, stat_col) ==
    IF game_log = None THEN <<>> ELSE TARGET_STAT(game_log.rows, stat_col)

features_with(game_log_recent, game_log_full, stat_col, home_away, opp) ==
    features_of(game_log_recent, game_log_full, stat_col,
        target_of(game_log_recent, stat_col), target_of(game_log_full, stat_col),
        home_away, opp)

\* engineer_features. The remote collaborators' replies are the call's
\* nondeterministic inputs: season_log and the two fetches of the player's
\* game log (15 rows, then all), and team_stats for the opponent's defence.
engineer_features(player_name, opponent_team, stat_type, home_away, season_log, fetch_recent, fetch_full, team_stats) ==
    features_with(
        get_player_recent_games(player_name, 15, season_log, fetch_recent),
        get_player_recent_games(player_name, 0, season_log, fetch_full),
        stat_mapping_get(lower(stat_type.s)),
        home_away,
        opponent_features(opponent_team,
            get_team_defense_stats(opponent_team, team_stats),
            resolve_team(opponent_team)))

----------------------------------------------------------------------------
(* The analyzer as a state machine: one operation of NBAPlayerPropAnalyzer *)
(* is called at a time, with inputs from the bounded sets below.           *)

VARIABLES
    call,            \* the operation called last, with its arguments
    ret,             \* what that call returned or raised
    entries,         \* PropAnalyzerGUI: the content of the entry widgets
    results_text,    \* PropAnalyzerGUI: the chunks of text in the results pane
    threads,         \* PropAnalyzerGUI: the run_analysis threads started so far
    after_queue,     \* PropAnalyzerGUI: callbacks given to root.after, not yet run
    predict_button,  \* NBAStatPredictorApp: state of the predict button
    result_list,     \* NBAStatPredictorApp: the prediction history, newest first
    ax,              \* NBAStatPredictorApp: what the plot shows
    status_label,    \* NBAStatPredictorApp: the status bar
    after_calls,     \* NBAStatPredictorApp: run_prediction calls scheduled
    np_random,       \* numpy: the state of the module-level generator np.random
    analyzer,        \* the fields of the NBAPlayerPropAnalyzer object
    runs             \* the calls made on the analyzer so far, with their results

call_vars == <<call, ret>>

gui_vars == <<entries, results_text, threads, after_queue>>

app_vars == <<predict_button, result_list, ax, status_label, after_calls>>

session_vars == <<np_random, analyzer, runs>>

vars == <<call, ret, entries, results_text, threads, after_queue, predict_button, result_list, ax, status_label, after_calls, np_random, analyzer, runs>>

\* Bounds of the model
MaxGames == 16

MaxSimulations == 3

\* The sample count of calculate_betting_recommendation's simulation (the
\* code's default is 10000)
DefaultSimulations == 2

\* Game rows: [20, 22] points and [10, 8] rebounds sum to [30, 30]
RowA == [PTS |-> 20, REB |-> 10, AST |-> 5, FG3M |-> 2, MIN |-> 30]

RowB == [PTS |-> 22, REB |-> 8, AST |-> 7, FG3M |-> 3, MIN |-> 34]

\* A season of n games, most recent first: k games like RowA, then RowB
Season(n, k) == [i \in 1..n |-> IF i <= k THEN RowA ELSE RowB]

\* The fixture games of the feature tests, most recent first
FixturePoints == <<30, 25, 28, 22, 20>>

FixtureRebounds == <<10, 8, 12, 6, 9>>

Fixture(n) ==
    [i \in 1..n |-> [PTS |-> FixturePoints[i], REB |-> FixtureRebounds[i],
                     AST |-> 5, FG3M |-> 2, MIN |-> 30]]

Seasons ==
    {Season(n, k) : n \in 0..MaxGames, k \in {0, 1}}
        \cup {Season(n, n) : n \in 0..MaxGames}
        \cup {Fixture(n) : n \in 1..Len(FixturePoints)}

PlayerNames == {"LeBron James", "Lebron Jame"}

StatTypes ==
    {Str(<<"p", "o", "i", "n", "t", "s">>), Str(<<"R", "e", "b", "o", "u", "n", "d", "s">>),
     Str(<<"a", "s", "s", "i", "s", "t", "s">>), Str(<<"t", "h", "r", "e", "e", "s">>),
     Str(<<"p", "t", "s", "+", "r", "e", "b", "s">>), Str(<<"p", "t", "s", "+", "a", "s", "t", "s">>),
     Str(<<"r", "e", "b", "s", "+", "a", "s", "t", "s">>), Str(<<"s", "t", "e", "a", "l", "s">>)}

Locations == {Str(<<"H", "O", "M", "E">>), Str(<<"a", "w", "a", "y">>)}

Opponents == {Str(<<"B", "O", "S">>), Str(<<"L", "a", "k", "e", "r", "s">>), Str(<<"X", "Y", "Z">>)}

\* Replies of the team statistics endpoint
TeamStatsReplies ==
    {[kind |-> "raises", rows |-> <<>>],
     [kind |-> "df", rows |-> <<>>],
     [kind |-> "df", rows |->
         <<[TEAM_ID |-> 1, TEAM_ABBREVIATION |-> <<"B", "O", "S">>,
            DEF_RATING |-> R(105), PACE |-> R(109), OPP_PTS |-> NaN],
           [TEAM_ID |-> 7, TEAM_ABBREVIATION |-> <<"L", "A", "L">>,
            DEF_RATING |-> NaN, PACE |-> R(101), OPP_PTS |-> NaN]>>]}

Fetches == {"ok", "raises"}

\* Feature vectors handed to calculate_betting_recommendation
FeatureVectors ==
    [recent_avg_5 : {R(25)}, std_dev : {R(0), R(5)},
     opp_def_rating : {R(112), R(115)}, opp_pace : {R(99), R(109)},
     hot_cold_factor : {R(0), Rat(1, 2)}, home_away : {0, 1}]

PropLines == {Rat(49, 2), Rat(51, 2)}

OddsValues == {-200, -110, 0, 150}

\* Standard normal draws
Draws == {-1, 0, 1}

DrawSeqs(n) == [1..n -> Draws]

\* The call has been made and has not returned yet
Pending == [kind |-> "pending"]

\* The calls of engineer_features: every combination of the inputs, a
\* failing fetch only for a player the lookup finds
EngineerFeaturesCalls ==
    {c \in [op : {"engineer_features"}, player_name : PlayerNames,
            opponent_team : Opponents, stat_type : StatTypes,
            home_away : Locations, season_log : Seasons,
            fetch_recent : Fetches, fetch_full : Fetches,
            team_stats : TeamStatsReplies] :
        /\ c.fetch_recent = "ok" \/ c.fetch_full = "ok"
        /\ c.player_name \in known_players
               \/ (c.fetch_recent = "ok" /\ c.fetch_full = "ok")}

MonteCarloCalls ==
    UNION {[op : {"run_monte_carlo_simulation"},
            predicted_value : {Rat(49, 2), R(25)}, std_dev : {R(0), R(5)},
            prop_line : PropLines, z : DrawSeqs(n)] : n \in 1..MaxSimulations}

RecommendationCalls ==
    [op : {"calculate_betting_recommendation"}, features : FeatureVectors,
     prop_line : PropLines, betting_odds_over : OddsValues,
     betting_odds_under : OddsValues, z : DrawSeqs(DefaultSimulations)]

\* Every contiguous piece of a text, the empty one included
Substrings(text) ==
    {SubSeq(text, i, j) : i \in 1..(Len(text) + 1), j \in 0..Len(text)}

\* Direct calls of _resolve_team: None, and pieces of team names,
\* abbreviations and other texts, in either case and padded with blanks
ResolveCalls ==
    [op : {"_resolve_team"},
     team_input : {None} \cup
         {Str(t) : t \in Substrings(<<" ", " ", "b", "o", "s", " ", "l", "a", "l", " ">>)
                        \cup Substrings(<<"L", "o", "s", " ", "A", "n", "g", "e", "l", "e", "s", " ", "L", "a", "k", "e", "r", "s">>)
                        \cup Substrings(<<"c", "h", "a", "r", "l", "o", "t", "t", "e", " ", "h", "o", "r", "n", "e", "t", "s">>)
                        \cup Substrings(<<"B", "r", "o", "o", "k", "l", "y", "n", " ", "N", "e", "t", "s", " ">>)
                        \cup {<<"X", "Y", "Z">>, <<"B", "K", "N">>, <<"C", "e", "l", "t", "i", "c", "s">>,
                              <<"B", "O", "S", "T", "O", "N", " ", "C", "E", "L", "T", "I", "C", "S">>, <<"C", "h", "a">>, <<"L", "a", "k", "e", "r", "s", "!">>}}]

\* _resolve_team called on its own
ResolveTeam ==
    /\ call.op = "_resolve_team"
    /\ ret = Pending
    /\ ret' = Return(resolve_team(call.team_input))
    /\ UNCHANGED <<call, gui_vars, app_vars, session_vars>>

\* Direct calls of the trend estimator: a fetched log or None, and a column
TrendCalls ==
    [op : {"calculate_recent_trend", "calculate_variance"},
     game_log : {None} \cup {DataFrame(s) : s \in Seasons},
     stat_column : {"PTS", "REB"}]

\* game_log[stat_column], not read when game_log is None
ColumnOf(game_log, stat_column) ==
    IF game_log = None THEN <<>> ELSE Column(game_log.rows, stat_column)

CalculateRecentTrend ==
    /\ call.op = "calculate_recent_trend"
    /\ ret = Pending
    /\ ret' = Return(calculate_recent_trend(call.game_log,
                         ColumnOf(call.game_log, call.stat_column)))
    /\ UNCHANGED <<call, gui_vars, app_vars, session_vars>>

CalculateVariance ==
    /\ call.op = "calculate_variance"
    /\ ret = Pending
    /\ ret' = Return(calculate_variance(call.game_log,
                         ColumnOf(call.game_log, call.stat_column)))
    /\ UNCHANGED <<call, gui_vars, app_vars, session_vars>>

EngineerFeatures ==
    /\ call.op = "engineer_features"
    /\ ret = Pending
    /\ ret' = engineer_features(call.player_name, call.opponent_team,
                  call.stat_type, call.home_away, call.season_log,
                  call.fetch_recent, call.fetch_full, call.team_stats)
    /\ UNCHANGED <<call, gui_vars, app_vars, session_vars>>

RunMonteCarloSimulation ==
    /\ call.op = "run_monte_carlo_simulation"
    /\ ret = Pending
    /\ ret' = Return(run_monte_carlo_simulation(call.predicted_value,
                         call.std_dev, call.prop_line, call.z))
    /\ UNCHANGED <<call, gui_vars, app_vars, session_vars>>

CalculateBettingRecommendation ==
    /\ call.op = "calculate_betting_recommendation"
    /\ ret = Pending
    /\ ret' = calculate_betting_recommendation(call.features, call.prop_line,
                  call.betting_odds_over, call.betting_odds_under, call.z)
    /\ UNCHANGED <<call, gui_vars, app_vars, session_vars>>

----------------------------------------------------------------------------
(* numpy's module-level generator, which np.random.normal draws from, and  *)
(* a session of calls on one NBAPlayerPropAnalyzer object.                 *)

\* The generator reduced to eight states: every draw maps the state to the
\* next one and yields a standard normal value made from it.  What the
\* model keeps of numpy's generator is that np.random is one object of the
\* process, that no operation of the analyzer seeds it, and that every
\* sample advances it.
RandomStates == 0..7

next_state(x) == (5 * x + 3) % 8

draw_of(x) == (x % 3) - 1

RECURSIVE advance(_, _)
advance(x, n) == IF n = 0 THEN x ELSE advance(next_state(x), n - 1)

\* The n values np.random.normal(0, 1, n) yields from state x
standard_normal(x, n) == [i \in 1..n |-> draw_of(advance(x, i))]

\* The states the generator may have when the first call is made
Seeds == {0, 4}

MaxCalls == 2

\* NBAPlayerPropAnalyzer.__init__, lines 24-26
Constructed ==
    [current_season |-> "2025-26", scaler |-> "StandardScaler()", model |-> None]

SessionConstructed ==
    /\ np_random = 0
    /\ analyzer = Constructed
    /\ runs = <<>>

\* One finished call: the operation, its arguments, what it gave back and
\* the features dict of the caller as the call left it (no line of the
\* analyzer assigns into the dict it is given)
Run(op, args, result) ==
    [op |-> op, args |-> args, result |-> result,
     features_after |-> IF op = "calculate_betting_recommendation"
                        THEN args.features ELSE None]

SessionSimulationArgs ==
    [predicted_value : {R(25)}, std_dev : {R(0), R(5)},
     prop_line : {Rat(49, 2)}, num_simulations : 1..MaxSimulations]

SessionRecommendationArgs ==
    [features : {f \in FeatureVectors :
                    /\ f.opp_def_rating = R(112) /\ f.opp_pace = R(99)
                    /\ f.hot_cold_factor = R(0) /\ f.home_away = 1},
     prop_line : {Rat(49, 2)}, betting_odds_over : {-110, 0},
     betting_odds_under : {-110}]

SessionFeaturesArgs ==
    [player_name : PlayerNames, opponent_team : {Str(<<"B", "O", "S">>)},
     stat_type : {Str(<<"p", "t", "s", "+", "r", "e", "b", "s">>)},
     home_away : {Str(<<"H", "O", "M", "E">>)},
     season_log : {Season(0, 0), Season(4, 1)}]

SessionTrendArgs ==
    [game_log : {None, DataFrame(Season(4, 1))}, stat_column : {"PTS"}]

\* run_monte_carlo_simulation called on the analyzer: the samples come
\* from np.random
SessionRunMonteCarloSimulation ==
    /\ Len(runs) < MaxCalls
    /\ \E a \in SessionSimulationArgs :
          /\ runs' = Append(runs, Run("run_monte_carlo_simulation", a,
                 Return(run_monte_carlo_simulation(a.predicted_value, a.std_dev, a.prop_line,
                     standard_normal(np_random, a.num_simulations)))))
          /\ np_random' = advance(np_random, a.num_simulations)
    /\ UNCHANGED <<analyzer, call_vars, gui_vars, app_vars>>

\* calculate_betting_recommendation called on the analyzer; its simulation
\* (line 338) has drawn before the odds are converted
SessionCalculateBettingRecommendation ==
    /\ Len(runs) < MaxCalls
    /\ \E a \in SessionRecommendationArgs :
          runs' = Append(runs, Run("calculate_betting_recommendation", a,
              calculate_betting_recommendation(a.features, a.prop_line,
                  a.betting_odds_over, a.betting_odds_under,
                  standard_normal(np_random, DefaultSimulations))))
    /\ np_random' = advance(np_random, DefaultSimulations)
    /\ UNCHANGED <<analyzer, call_vars, gui_vars, app_vars>>

SessionEngineerFeatures ==
    /\ Len(runs) < MaxCalls
    /\ \E a \in SessionFeaturesArgs :
          runs' = Append(runs, Run("engineer_features", a,
              engineer_features(a.player_name, a.opponent_team, a.stat_type,
                  a.home_away, a.season_log, "ok", "ok", [kind |-> "raises", rows |-> <<>>])))
    /\ UNCHANGED <<np_random, analyzer, call_vars, gui_vars, app_vars>>

SessionCalculateRecentTrend ==
    /\ Len(runs) < MaxCalls
    /\ \E a \in SessionTrendArgs :
          runs' = Append(runs, Run("calculate_recent_trend", a,
              Return(calculate_recent_trend(a.game_log, ColumnOf(a.game_log, a.stat_column)))))
    /\ UNCHANGED <<np_random, analyzer, call_vars, gui_vars, app_vars>>

SessionCalculateVariance ==
    /\ Len(runs) < MaxCalls
    /\ \E a \in SessionTrendArgs :
          runs' = Append(runs, Run("calculate_variance", a,
              Return(calculate_variance(a.game_log, ColumnOf(a.game_log, a.stat_column)))))
    /\ UNCHANGED <<np_random, analyzer, call_vars, gui_vars, app_vars>>

----------------------------------------------------------------------------
(* PropAnalyzerGUI, src/betting_new.py lines 395-693: the entry widgets,   *)
(* the results pane, the threads that analyze_prop starts and the          *)
(* callbacks they hand to the Tk main loop with root.after.                *)

MaxRequests == 2

Digits == <<"0", "1", "2", "3", "4", "5", "6", "7", "8", "9">>

IsDigit(c) == \E d \in 1..10 : Digits[d] = c

DigitValue(c) == (CHOOSE d \in 1..10 : Digits[d] = c) - 1

RECURSIVE DigitsValue(_)
DigitsValue(s) ==
    IF s = <<>> THEN 0
    ELSE 10 * DigitsValue(SubSeq(s, 1, Len(s) - 1)) + DigitValue(s[Len(s)])

\* A numeral without its sign, and the sign
Unsigned(t) == IF t # <<>> /\ t[1] \in {"+", "-"} THEN Tail(t) ELSE t

Sign(t) == IF t # <<>> /\ t[1] = "-" THEN -1 ELSE 1

RECURSIVE Pow10(_)
Pow10(n) == IF n = 0 THEN 1 ELSE 10 * Pow10(n - 1)

\* int(text) of a text of letters, digits, signs and blanks
int(text) ==
    LET t == strip(text)
        body == Unsigned(t)
    IN  IF body # <<>> /\ \A i \in 1..Len(body) : IsDigit(body[i])
        THEN Return(Sign(t) * DigitsValue(body))
        ELSE Raise("ValueError")

\* float(text) of a text of letters, digits, signs, points and blanks
\* (no exponent, no "inf" or "nan" spelled out)
float(text) ==
    LET t == strip(text)
        body == Unsigned(t)
        points == {i \in 1..Len(body) : body[i] = "."}
        digits == SelectSeq(body, IsDigit)
        places == IF points = {} THEN 0
                  ELSE Len(body) - (CHOOSE i \in points : TRUE)
    IN  IF /\ digits # <<>>
           /\ Cardinality(points) <= 1
           /\ \A i \in 1..Len(body) : IsDigit(body[i]) \/ body[i] = "."
        THEN Return(Rat(Sign(t) * DigitsValue(digits), Pow10(places)))
        ELSE Raise("ValueError")

\* The entries as setup_ui fills them, lines 434-484
DefaultEntries ==
    [player_entry |-> "LeBron James",
     opponent_entry |-> <<"L", "A", "L">>,
     stat_var |-> <<"p", "o", "i", "n", "t", "s">>,
     line_entry |-> <<"2", "5", ".", "5">>,
     over_odds_entry |-> <<"-", "1", "1", "0">>,
     under_odds_entry |-> <<"-", "1", "1", "0">>,
     location_var |-> <<"H", "O", "M", "E">>]

\* What the user may type into the entries
Forms ==
    [player_entry : {"LeBron James"},
     opponent_entry : {<<"L", "A", "L">>},
     stat_var : {<<"p", "o", "i", "n", "t", "s">>},
     line_entry : {<<"2", "5", ".", "5">>, <<"a", "b", "c">>},
     over_odds_entry : {<<"-", "1", "1", "0">>, <<"0">>},
     under_odds_entry : {<<"-", "1", "1", "0">>},
     location_var : {<<"H", "O", "M", "E">>}]

\* What the remote service answers to one analysis
AnalyzerSeason == Season(12, 1)

AnalyzerTeamStats ==
    [kind |-> "df", rows |->
        <<[TEAM_ID |-> 2, TEAM_ABBREVIATION |-> <<"L", "A", "L">>,
           DEF_RATING |-> R(115), PACE |-> R(99), OPP_PTS |-> NaN]>>]

\* The placeholder of line 547
Placeholder == [kind |-> "analyzing"]

\* The chunk that display_results inserts, lines 592-693
Output(player_name, stat_type, prop_line, features, stat_col, rec) ==
    [kind |-> "results",
     player_name |-> player_name,
     stat_type |-> upper(stat_type),
     prop_line |-> prop_line,
     recent_avg_5 |-> features.recent_avg_5,
     stat_col |-> stat_col,
     rec |-> rec]

ErrorText(message) == [kind |-> "error", message |-> message]

\* The exception variable e of a run_analysis frame when no exception is
\* bound to it: before the except clause, and again after its last line
Unbound == [kind |-> "unbound"]

Bound(error) == [kind |-> "exception", error |-> error]

NoLocals == [kind |-> "unread"]

\* What a thread's simulation took from np.random: the state it found and
\* the state it left, or nothing when the thread ran no simulation
NoDraw == [kind |-> "none"]

Drew(x) == [kind |-> "drew", before |-> x, after |-> advance(x, DefaultSimulations)]

\* The callback a thread has given to root.after, before it gives one
NoOutcome == [kind |-> "none"]

\* The requests engineer_features sends and the tables it reads, in the
\* order of lines 198-256: the game log is requested twice (line 37, for a
\* player the static table holds), the check of line 203 follows both
\* requests, and the team statistics are requested (line 122) once the
\* opponent resolves; the fallback of line 245 resolves it again
engineer_features_trace(player_name, opponent_team, fetch_recent, fetch_full, team_stats) ==
    LET game_log == IF player_name \in known_players
                    THEN <<"find_players_by_full_name", "PlayerGameLog">>
                    ELSE <<"find_players_by_full_name">>
        resolved == resolve_team(opponent_team)
        defense == IF resolved = None THEN <<"_resolve_team", "_resolve_team">>
                   ELSE IF get_team_defense_stats(opponent_team, team_stats) = None
                   THEN <<"_resolve_team", "LeagueDashTeamStats", "_resolve_team">>
                   ELSE <<"_resolve_team", "LeagueDashTeamStats">>
    IN  IF player_name \notin known_players \/ fetch_recent = "raises" \/ fetch_full = "raises"
        THEN game_log \o game_log
        ELSE game_log \o game_log \o defense \o <<"hot_cold_factor">>

\* A recommendation that fetches the opponent's defence itself
calculate_betting_recommendation_trace_fetching(raises) ==
    IF raises THEN <<"LeagueDashTeamStats", "predicted_value", "run_monte_carlo_simulation", "american_to_decimal">>
    ELSE <<"predicted_value", "LeagueDashTeamStats", "run_monte_carlo_simulation", "american_to_decimal", "edge">>

\* The steps of calculate_betting_recommendation, lines 316-392: the
\* adjusted prediction, the simulation, the odds conversion (which may
\* raise) and the edges
calculate_betting_recommendation_trace(raises) ==
    IF raises THEN <<"predicted_value", "run_monte_carlo_simulation", "american_to_decimal">>
    ELSE <<"predicted_value", "run_monte_carlo_simulation", "american_to_decimal", "edge">>

\* One callback of the main loop, applied to the pane.  The lambda of
\* line 586 reads e of the thread's frame when it runs: with e unbound it
\* raises NameError, which Tk reports on stderr, and the pane stays as is.
run_callback(cb, pane, ths) ==
    CASE cb.kind = "insert_could_not_fetch" ->
            Append(pane, ErrorText("Could not fetch player data"))
      [] cb.kind = "display_results" ->
            <<Output(cb.player_name, cb.stat_type, cb.prop_line, cb.features, cb.stat_col, cb.recommendation)>>
      [] cb.kind = "insert_error" ->
            IF ths[cb.thread].e = Unbound
            THEN pane
            ELSE Append(pane, ErrorText(ths[cb.thread].e.error))

\* root.update(), line 548: the callbacks that are due run in order
RECURSIVE update(_, _, _)
update(queue, pane, ths) ==
    IF queue = <<>> THEN pane
    ELSE update(Tail(queue), run_callback(Head(queue), pane, ths), ths)

\* analyze_prop, lines 544-553
AnalyzeProp ==
    /\ Len(threads) < MaxRequests
    /\ results_text' = update(after_queue, <<Placeholder>>, threads)
    /\ after_queue' = <<>>
    /\ threads' = Append(threads,
           [pc |-> "start", locals |-> NoLocals, e |-> Unbound, drew |-> NoDraw,
            overlaps |-> \E u \in DOMAIN threads : threads[u].pc # "done",
            outcome |-> NoOutcome, trace |-> <<>>])
    /\ UNCHANGED <<entries, call_vars, app_vars, session_vars>>

\* The user changes the entries
EditEntries ==
    /\ \E f \in Forms : f # entries /\ entries' = f
    /\ UNCHANGED <<results_text, threads, after_queue, call_vars, app_vars, session_vars>>

\* except Exception as e, lines 585-586: e is bound and the callback is
\* given to root.after; the except clause has not ended yet
Except(t, error, drew, trace) ==
    /\ threads' = [threads EXCEPT ![t].pc = "except", ![t].e = Bound(error),
                                  ![t].drew = drew, ![t].trace = trace,
                                  ![t].outcome = [kind |-> "insert_error", thread |-> t]]
    /\ after_queue' = Append(after_queue, [kind |-> "insert_error", thread |-> t])

\* The locals of lines 557-563 once every conversion has succeeded
Locals(f, prop_line, over_odds, under_odds) ==
    [kind |-> "read",
     player_name |-> f.player_entry,
     opponent |-> upper(f.opponent_entry),
     stat_type |-> f.stat_var,
     prop_line |-> prop_line,
     over_odds |-> over_odds,
     under_odds |-> under_odds,
     location |-> f.location_var]

ReadEntries(t, prop_line, over_odds, under_odds) ==
    IF prop_line.kind = "raise" THEN Except(t, prop_line.error, NoDraw, <<>>)
    ELSE IF over_odds.kind = "raise" THEN Except(t, over_odds.error, NoDraw, <<>>)
    ELSE IF under_odds.kind = "raise" THEN Except(t, under_odds.error, NoDraw, <<>>)
    ELSE /\ threads' = [threads EXCEPT ![t].pc = "analyzing",
                                       ![t].locals = Locals(entries, prop_line.value, over_odds.value, under_odds.value)]
         /\ UNCHANGED after_queue

\* run_analysis, lines 557-563: the thread reads the entries
RunAnalysisRead(t) ==
    /\ t \in DOMAIN threads
    /\ threads[t].pc = "start"
    /\ ReadEntries(t, float(entries.line_entry), int(entries.over_odds_entry), int(entries.under_odds_entry))
    /\ UNCHANGED <<entries, results_text, call_vars, app_vars, session_vars>>

\* The thread gives its callback to root.after and returns
Finish(t, drew, trace, callback) ==
    /\ threads' = [threads EXCEPT ![t].pc = "done", ![t].drew = drew,
                                  ![t].trace = trace, ![t].outcome = callback]
    /\ after_queue' = Append(after_queue, callback)

\* Lines 574-583: the recommendation, and the callback that displays it.
\* The simulation inside it took its samples from np.random in state x.
Recommend(t, l, result, recommendation, x, trace) ==
    IF recommendation.kind = "raise"
    THEN Except(t, recommendation.error, Drew(x),
             trace \o calculate_betting_recommendation_trace(TRUE))
    ELSE Finish(t, Drew(x), trace \o calculate_betting_recommendation_trace(FALSE),
             [kind |-> "display_results",
              player_name |-> l.player_name,
              stat_type |-> l.stat_type,
              prop_line |-> l.prop_line,
              features |-> result.features,
              game_log |-> result.game_log_recent,
              stat_col |-> result.stat_col,
              recommendation |-> recommendation.value])

\* Lines 566-572: the features, or the callback of line 569
Analyze(t, l, result, x, trace) ==
    IF result = None
    THEN /\ Finish(t, NoDraw, trace, [kind |-> "insert_could_not_fetch"])
         /\ np_random' = x
    ELSE /\ Recommend(t, l, result, calculate_betting_recommendation(result.features, l.prop_line, l.over_odds, l.under_odds, standard_normal(x, DefaultSimulations)), x, trace)
         /\ np_random' = advance(x, DefaultSimulations)

\* run_analysis, lines 565-583: the remote lookups and the computation
RunAnalysisCompute(t) ==
    /\ t \in DOMAIN threads
    /\ threads[t].pc = "analyzing"
    /\ \E fetch \in Fetches :
          Analyze(t, threads[t].locals,
                  engineer_features(threads[t].locals.player_name,
                      Str(threads[t].locals.opponent),
                      Str(threads[t].locals.stat_type),
                      Str(threads[t].locals.location),
                      AnalyzerSeason, fetch, "ok", AnalyzerTeamStats).value,
                  np_random,
                  engineer_features_trace(threads[t].locals.player_name,
                      Str(threads[t].locals.opponent), fetch, "ok", AnalyzerTeamStats))
    /\ UNCHANGED <<entries, results_text, call_vars, app_vars, analyzer, runs>>

\* The end of the except clause: Python unbinds e
RunAnalysisExceptEnd(t) ==
    /\ t \in DOMAIN threads
    /\ threads[t].pc = "except"
    /\ threads' = [threads EXCEPT ![t].pc = "done", ![t].e = Unbound]
    /\ UNCHANGED <<entries, results_text, after_queue, call_vars, app_vars, session_vars>>

\* The main loop runs the callback that is due first
RunCallback ==
    /\ after_queue # <<>>
    /\ results_text' = run_callback(Head(after_queue), results_text, threads)
    /\ after_queue' = Tail(after_queue)
    /\ UNCHANGED <<entries, threads, call_vars, app_vars, session_vars>>

\* PropAnalyzerGUI after __init__
AnalyzerConstructed ==
    /\ entries = DefaultEntries
    /\ results_text = <<>>
    /\ threads = <<>>
    /\ after_queue = <<>>

----------------------------------------------------------------------------
(* betting.predict_weighted_player_stat, src/betting.py lines 50-97, and   *)
(* NBAStatPredictorApp, src/betting_gui.py lines 319-452.                  *)

MaxHistory == 2

\* The number of simulations of predict_weighted_player_stat, and of
\* predictions of the fallback
PredictSimulations == 2

FallbackPredictions == 2

players_get_players == {<<"L", "e", "B", "r", "o", "n", " ", "J", "a", "m", "e", "s">>}

teams_get_teams == {<<"B", "o", "s", "t", "o", "n", " ", "C", "e", "l", "t", "i", "c", "s">>, <<"L", "o", "s", " ", "A", "n", "g", "e", "l", "e", "s", " ", "L", "a", "k", "e", "r", "s">>}

stats == {"PTS", "REB", "AST", "MIN", "FGA", "FGM", "FG3A", "FG3M", "FTA", "FTM", "STL", "BLK", "TOV"}

\* Line 73 without the clamp of line 74
defense_adjustment_unclamped(opp_pts) ==
    RAdd(R(1), RMul(Rat(7, 10), RDiv(RSub(R(110), opp_pts), R(120))))

\* Lines 73-74
defense_adjustment(opp_pts) ==
    PyMax(Rat(9, 10), PyMin(Rat(11, 10),
        RAdd(R(1), RMul(Rat(7, 10), RDiv(RSub(R(110), opp_pts), R(120))))))

\* Lines 78-79
home_away_adjustment(home_stat, away_stat, home_game) ==
    PyMax(Rat(95, 100), PyMin(Rat(11, 10),
        IF home_game THEN RDiv(home_stat, away_stat)
        ELSE RDiv(away_stat, home_stat)))

\* Lines 81-95: one predicted value for each forest and volatility factor
simulation_results(predicted, volatility, adjustment) ==
    [i \in 1..Len(predicted) |-> RMul(RMul(predicted[i], adjustment), volatility[i])]

predict_weighted_player_stat(player_name, stat, opponent_team, home_game, env) ==
    IF \A p \in players_get_players : lower(p) # lower(player_name)
    THEN Raise("ValueError")
    ELSE IF env.fetch = "raises" THEN Raise("ConnectionError")
    ELSE IF stat \notin stats THEN Raise("KeyError")
    ELSE IF env.games < 10 THEN Raise("ValueError")
    ELSE IF \A n \in teams_get_teams : lower(n) # lower(opponent_team)
    THEN Raise("ValueError")
    ELSE LET results == simulation_results(env.predicted, env.volatility,
                            RMul(defense_adjustment(env.opp_pts),
                                 home_away_adjustment(env.home_stat, env.away_stat, home_game)))
         IN  Return([mean |-> RMean(results), predictions |-> results])

\* What the remote service and the random forests answer to one prediction
Environments ==
    [fetch : {"ok", "raises"},
     games : {9, 10},
     opp_pts : {R(110), R(150)},
     home_stat : {R(25)},
     away_stat : {R(20)},
     predicted : {[i \in 1..PredictSimulations |-> R(19 + i)]},
     volatility : [1..PredictSimulations -> {R(1), Rat(13, 10), Rat(7, 10)}]]

\* Direct calls of predict_weighted_player_stat for a player with a full
\* season: any opponent points average and any home and away averages of
\* the player, a mean of no games (NaN) and an average of 0 among them
PredictCalls ==
    [op : {"predict_weighted_player_stat"},
     player_name : {<<"L", "e", "B", "r", "o", "n", " ", "J", "a", "m", "e", "s">>},
     stat : {"PTS"},
     opponent_team : {<<"B", "o", "s", "t", "o", "n", " ", "C", "e", "l", "t", "i", "c", "s">>},
     home_game : BOOLEAN,
     env : [fetch : {"ok"}, games : {10},
            opp_pts : {NaN, R(0), R(50), R(110), R(150), R(300)},
            home_stat : {NaN, R(0), R(20), R(25)},
            away_stat : {NaN, R(0), R(20), R(25)},
            predicted : {[i \in 1..PredictSimulations |-> R(19 + i)]},
            volatility : {[i \in 1..PredictSimulations |-> R(1)]}]]

\* predict_weighted_player_stat called on its own: what it returns or
\* raises, with the two adjustments of lines 74 and 79 it has applied
PredictWeightedPlayerStat ==
    /\ call.op = "predict_weighted_player_stat"
    /\ ret = Pending
    /\ ret' = [kind |-> "locals",
               defense_adjustment |-> defense_adjustment(call.env.opp_pts),
               home_away_adjustment |->
                   home_away_adjustment(call.env.home_stat, call.env.away_stat, call.home_game),
               outcome |-> predict_weighted_player_stat(call.player_name, call.stat,
                               call.opponent_team, call.home_game, call.env)]
    /\ UNCHANGED <<call, gui_vars, app_vars, session_vars>>

\* team_mapping.get(team_abbrev, team_abbrev), line 364
team_mapping_get(team_abbrev) ==
    CASE team_abbrev = <<"B", "O", "S">> -> <<"B", "o", "s", "t", "o", "n", " ", "C", "e", "l", "t", "i", "c", "s">>
      [] team_abbrev = <<"L", "A", "L">> -> <<"L", "o", "s", " ", "A", "n", "g", "e", "l", "e", "s", " ", "L", "a", "k", "e", "r", "s">>
      [] OTHER -> team_abbrev

\* f"{x:.1f}": x in tenths, the nearest, a tie going to the even one
format_1f(x) ==
    LET n == 10 * x[1]
        q == n \div x[2]
        r == n - q * x[2]
    IN  IF 2 * r < x[2] THEN q
        ELSE IF 2 * r > x[2] THEN q + 1
        ELSE IF q % 2 = 0 THEN q ELSE q + 1

\* The history entry of lines 389-395 and 430-436, the clock reading left out
result_text(player_name, team_abbrev, home_game, prediction_mean, stat, demo) ==
    [player_name |-> player_name,
     team_abbrev |-> team_abbrev,
     location_text |-> IF home_game THEN "Home" ELSE "Away",
     tenths |-> format_1f(prediction_mean),
     stat |-> stat,
     demo |-> demo]

\* plot_simulation_results, lines 454-534
plot_simulation_results(predictions, player_name, stat, team_abbrev, home_game) ==
    [kind |-> "plot",
     predictions |-> predictions,
     mean_val |-> RMean(predictions),
     player_name |-> player_name,
     stat |-> stat,
     team_abbrev |-> team_abbrev,
     location_text |-> IF home_game THEN "Home" ELSE "Away"]

\* start_prediction, lines 319-349.  A disabled button takes no click.
StartPrediction ==
    /\ predict_button = "normal"
    /\ Len(result_list) < MaxHistory
    /\ \E player_entry \in {<<>>, <<" ", "L", "e", "B", "r", "o", "n", " ", "J", "a", "m", "e", "s">>, <<"L", "e", " ", "B", "r", "o", "n">>},
          stat \in {"", "PTS"},
          team_abbrev \in {<<>>, <<"B", "O", "S">>},
          home_var \in {"Home", "Away"} :
          IF strip(player_entry) = <<>> \/ stat = "" \/ team_abbrev = <<>>
          THEN /\ status_label' = [kind |-> "error", text |-> "Please fill in all required fields."]
               /\ UNCHANGED <<predict_button, after_calls>>
          ELSE /\ status_label' = [kind |-> "text_secondary", text |-> "Preparing simulation..."]
               /\ predict_button' = "disabled"
               /\ after_calls' = Append(after_calls,
                      [player_name |-> strip(player_entry), stat |-> stat,
                       team_abbrev |-> team_abbrev, home_game |-> (home_var = "Home")])
    /\ UNCHANGED <<result_list, ax, call_vars, gui_vars, session_vars>>

\* What the plot shows when plot_simulation_results raises: line 456 has
\* cleared it
plot_failed == [kind |-> "cleared"]

\* Lines 385-404: the prediction is shown
ShowPrediction(a, prediction) ==
    /\ result_list' = <<result_text(a.player_name, a.team_abbrev, a.home_game, prediction.mean, a.stat, FALSE)>> \o result_list
    /\ ax' = plot_simulation_results(prediction.predictions, a.player_name, a.stat, a.team_abbrev, a.home_game)
    /\ status_label' = [kind |-> "success", text |-> "Prediction complete"]

\* Lines 406-445: the handler of any exception shows random values after
\* the history the try block left
ShowFallback(a, history, prediction_mean, predictions) ==
    /\ result_list' = <<result_text(a.player_name, a.team_abbrev, a.home_game, prediction_mean, a.stat, TRUE)>> \o history
    /\ ax' = plot_simulation_results(predictions, a.player_name, a.stat, a.team_abbrev, a.home_game)
    /\ status_label' = [kind |-> "warning", text |-> "Demo prediction complete"]

\* Lines 420-421: the random values of the fallback
Fallback(a, history, prediction_mean, z) ==
    ShowFallback(a, history, prediction_mean, normal(prediction_mean, R(2), z))

\* Lines 406-448 when the plot of line 439 raises: the entry of line 436 is
\* in the history, the failure is swallowed and the error status of line
\* 408 stays
FallbackFails(a, e, history, prediction_mean) ==
    /\ result_list' = <<result_text(a.player_name, a.team_abbrev, a.home_game, prediction_mean, a.stat, TRUE)>> \o history
    /\ ax' = plot_failed
    /\ status_label' = [kind |-> "error", text |-> e]

\* Lines 362-448.  The prediction returns and is shown; or it returns and
\* the plot of line 398 raises, as then does the plot of line 439; or it
\* raises, and the plot of line 439 works or raises.
Predicted(a, outcome) ==
    \/ /\ outcome.kind = "return"
       /\ ShowPrediction(a, outcome.value)
    \/ /\ outcome.kind = "return"
       /\ \E z0 \in Draws :
             FallbackFails(a, "Exception",
                 <<result_text(a.player_name, a.team_abbrev, a.home_game, outcome.value.mean, a.stat, FALSE)>> \o result_list,
                 normal(Rat(41, 2), R(3), <<z0>>)[1])
    \/ /\ outcome.kind = "raise"
       /\ \E z0 \in Draws :
             \/ \E z \in DrawSeqs(FallbackPredictions) :
                   Fallback(a, result_list, normal(Rat(41, 2), R(3), <<z0>>)[1], z)
             \/ FallbackFails(a, outcome.error, result_list, normal(Rat(41, 2), R(3), <<z0>>)[1])

\* The button stays as the request left it
Finally_skipped == UNCHANGED predict_button

\* Lines 450-452: the finally clause
Finally == predict_button' = "normal"

\* run_prediction, lines 360-452, called by the main loop
RunPrediction ==
    /\ after_calls # <<>>
    /\ \E outcome \in {predict_weighted_player_stat(Head(after_calls).player_name,
                            Head(after_calls).stat,
                            team_mapping_get(Head(after_calls).team_abbrev),
                            Head(after_calls).home_game, env) : env \in Environments} :
          Predicted(Head(after_calls), outcome)
    /\ after_calls' = Tail(after_calls)
    /\ Finally
    /\ UNCHANGED <<call_vars, gui_vars, session_vars>>

\* NBAStatPredictorApp after __init__
AppConstructed ==
    /\ predict_button = "normal"
    /\ result_list = <<>>
    /\ ax = [kind |-> "empty"]
    /\ status_label = [kind |-> "text_secondary", text |-> "Ready."]
    /\ after_calls = <<>>

\* No call of the analyzer is under way
NoCall == call = [op |-> "none"] /\ ret = Pending

----------------------------------------------------------------------------
\* The feature extractor and the trend estimator, called once with any of
\* their inputs
InitFeatures ==
    /\ call \in EngineerFeaturesCalls \cup TrendCalls
    /\ ret = Pending
    /\ AnalyzerConstructed
    /\ AppConstructed
    /\ SessionConstructed

NextFeatures ==
    \/ EngineerFeatures
    \/ CalculateRecentTrend
    \/ CalculateVariance

SpecFeatures == InitFeatures /\ [][NextFeatures]_vars

\* The simulator and the edge calculator, called once with any inputs
Init ==
    /\ call \in MonteCarloCalls \cup RecommendationCalls
    /\ ret = Pending
    /\ AnalyzerConstructed
    /\ AppConstructed
    /\ SessionConstructed

Next ==
    \/ RunMonteCarloSimulation
    \/ CalculateBettingRecommendation

Spec == Init /\ [][Next]_vars

\* PropAnalyzerGUI: the user, the analysis threads and the main loop
InitAnalyzer ==
    /\ NoCall
    /\ AnalyzerConstructed
    /\ AppConstructed
    /\ np_random \in Seeds
    /\ analyzer = Constructed
    /\ runs = <<>>

ThreadStep ==
    \E t \in 1..MaxRequests :
        \/ RunAnalysisRead(t)
        \/ RunAnalysisCompute(t)
        \/ RunAnalysisExceptEnd(t)

NextAnalyzer ==
    \/ AnalyzeProp
    \/ EditEntries
    \/ ThreadStep
    \/ RunCallback

SpecAnalyzer == InitAnalyzer /\ [][NextAnalyzer]_vars

\* A started thread runs to its end, and the main loop runs every callback
\* that is due
FairSpecAnalyzer ==
    SpecAnalyzer /\ WF_vars(ThreadStep) /\ WF_vars(RunCallback)

\* NBAStatPredictorApp: the user and the main loop
InitApp ==
    /\ NoCall
    /\ AnalyzerConstructed
    /\ AppConstructed
    /\ SessionConstructed

NextApp ==
    \/ StartPrediction
    \/ RunPrediction

SpecApp == InitApp /\ [][NextApp]_vars

\* The team resolver, called once with any input
InitResolve ==
    /\ call \in ResolveCalls
    /\ ret = Pending
    /\ AnalyzerConstructed
    /\ AppConstructed
    /\ SessionConstructed

NextResolve == ResolveTeam

SpecResolve == InitResolve /\ [][NextResolve]_vars

\* The prediction function of src/betting.py, called once with any inputs
InitPredict ==
    /\ call \in PredictCalls
    /\ ret = Pending
    /\ AnalyzerConstructed
    /\ AppConstructed
    /\ SessionConstructed

NextPredict == PredictWeightedPlayerStat

SpecPredict == InitPredict /\ [][NextPredict]_vars

\* A session of calls on one analyzer object
InitSession ==
    /\ NoCall
    /\ AnalyzerConstructed
    /\ AppConstructed
    /\ np_random \in Seeds
    /\ analyzer = Constructed
    /\ runs = <<>>

NextSession ==
    \/ SessionRunMonteCarloSimulation
    \/ SessionCalculateBettingRecommendation
    \/ SessionEngineerFeatures
    \/ SessionCalculateRecentTrend
    \/ SessionCalculateVariance

SpecSession == InitSession /\ [][NextSession]_vars

----------------------------------------------------------------------------
(* Claims about the simulator and the edge calculator, checked under Spec. *)

Returned == ret.kind = "return"

CalledSimulation == call.op = "run_monte_carlo_simulation" /\ ret # Pending

CalledRecommendation == call.op = "calculate_betting_recommendation" /\ ret # Pending

\* The simulation result of the call that returned: the simulator's own,
\* or the one calculate_betting_recommendation put in its recommendation
McResults ==
    IF call.op = "run_monte_carlo_simulation" THEN ret.value
    ELSE ret.value.mc_results

InUnitInterval(p) == RGe(p, R(0)) /\ RLe(p, R(1))

\* C1: whatever the prediction, std_dev, line, sample count (>= 1) and
\* draws, the returned over_probability and under_probability sum to
\* exactly 1, under_probability is 1 - over_probability, and both lie in
\* [0, 1].
C1_ProbabilitiesSumToOne ==
    (ret # Pending /\ Returned) =>
        /\ RAdd(McResults.over_probability, McResults.under_probability) = R(1)
        /\ McResults.under_probability = RSub(R(1), McResults.over_probability)
        /\ InUnitInterval(McResults.over_probability)
        /\ InUnitInterval(McResults.under_probability)

\* C1 witness: a simulation of three samples returned with one sample over
\* the line, one under it and one exactly on it.
C1_Witness ==
    /\ CalledSimulation
    /\ Len(call.z) = 3
    /\ ret.value.over_probability = Rat(1, 3)
    /\ ret.value.under_probability = Rat(2, 3)
    /\ \E i \in 1..3 : ret.value.simulations[i] = call.prop_line

\* C2: for valid odds both Kelly fractions are never negative, and a
\* negative edge gives a stake of exactly 0.
C2_KellyNeverNegative ==
    (CalledRecommendation /\ Returned) =>
        /\ RGe(ret.value.kelly_over, R(0))
        /\ RGe(ret.value.kelly_under, R(0))
        /\ RLt(ret.value.edge_over, R(0)) => ret.value.kelly_over = R(0)
        /\ RLt(ret.value.edge_under, R(0)) => ret.value.kelly_under = R(0)

\* C2 witness: a recommendation whose over edge is strongly negative (no
\* sample over the line at odds of -200) and whose over stake is 0.
C2_Witness ==
    /\ CalledRecommendation
    /\ Returned
    /\ RLe(ret.value.edge_over, Rat(-1, 2))
    /\ ret.value.kelly_over = R(0)
    /\ RGt(ret.value.kelly_under, R(0))

\* C3: the bet is OVER exactly when edge_over > 0.05 and edge_over >
\* edge_under, UNDER exactly when edge_under > 0.05 and edge_under >
\* edge_over, and NO BET in every other case.
C3_DecisionRule ==
    (CalledRecommendation /\ Returned) =>
        LET over == RGt(ret.value.edge_over, Rat(5, 100))
                        /\ RGt(ret.value.edge_over, ret.value.edge_under)
            under == RGt(ret.value.edge_under, Rat(5, 100))
                        /\ RGt(ret.value.edge_under, ret.value.edge_over)
        IN  /\ ret.value.bet = "OVER" <=> over
            /\ ret.value.bet = "UNDER" <=> under
            /\ ret.value.bet = "NO BET" <=> (~over /\ ~under)
            /\ ret.value.bet \in {"OVER", "UNDER", "NO BET"}

\* C3 witness: both edges are equal and above 0.05, and the bet is NO BET.
C3_Witness ==
    /\ CalledRecommendation
    /\ Returned
    /\ ret.value.edge_over = ret.value.edge_under
    /\ RGt(ret.value.edge_over, Rat(5, 100))
    /\ ret.value.bet = "NO BET"

\* C4: a call with over odds or under odds of exactly 0 fails with
\* InvalidOddsError and produces no recommendation.
C4_ZeroOddsInvalidOddsError ==
    (CalledRecommendation
        /\ (call.betting_odds_over = 0 \/ call.betting_odds_under = 0)) =>
        ret = Raise("InvalidOddsError")

C21_PredictionSteps ==
    (CalledRecommendation /\ Returned) =>
        LET f == call.features
            def == RAdd(R(1), RDiv(RSub(R(115), f.opp_def_rating), R(1000)))
            pace == RAdd(R(1), RDiv(RSub(f.opp_pace, R(99)), R(2000)))
            home_factor == IF f.home_away = 1 THEN Rat(102, 100) ELSE Rat(98, 100)
        IN  ret.value.predicted_value =
                RMul(RAdd(RMul(RMul(f.recent_avg_5, def), pace),
                          RDiv(f.hot_cold_factor, R(2))),
                     home_factor)

\* C21 witness: an away game against a defence of 112 at a pace of 109
\* with a hot/cold factor of 0.5: (25 * 1.003 * 1.005 + 0.25) * 0.98
C21_Witness ==
    /\ CalledRecommendation
    /\ Returned
    /\ call.features.home_away = 0
    /\ call.features.opp_def_rating = R(112)
    /\ call.features.opp_pace = R(109)
    /\ call.features.hot_cold_factor = Rat(1, 2)
    /\ ret.value.predicted_value =
           RMul(RAdd(RMul(RMul(R(25), Rat(1003, 1000)), Rat(1005, 1000)), Rat(1, 4)),
                Rat(98, 100))

\* The probability the odds of one side imply, read back from the
\* recommendation: the side's model probability less its edge
ImpliedProbOver == RSub(ret.value.mc_results.over_probability, ret.value.edge_over)

ImpliedProbUnder == RSub(ret.value.mc_results.under_probability, ret.value.edge_under)

\* (odds / 100) + 1 for positive odds, (100 / |odds|) + 1 for negative
DecimalOdds(odds) ==
    IF odds > 0 THEN Rat(odds + 100, 100)
    ELSE Rat(100 + (IF odds < 0 THEN -odds ELSE odds), IF odds < 0 THEN -odds ELSE odds)

\* C22: for non-zero American odds the decimal odds are (odds / 100) + 1
\* when odds > 0 and (100 / |odds|) + 1 when odds < 0, so above 1, and
\* the implied probability 1 / decimal_odds of each side lies strictly
\* between 0 and 1.
C22_ImpliedProbabilityInOpenUnitInterval ==
    (CalledRecommendation /\ call.betting_odds_over # 0 /\ call.betting_odds_under # 0) =>
        /\ Returned
        /\ RGt(DecimalOdds(call.betting_odds_over), R(1))
        /\ RGt(DecimalOdds(call.betting_odds_under), R(1))
        /\ ImpliedProbOver = RDiv(R(1), DecimalOdds(call.betting_odds_over))
        /\ ImpliedProbUnder = RDiv(R(1), DecimalOdds(call.betting_odds_under))
        /\ RGt(ImpliedProbOver, R(0)) /\ RLt(ImpliedProbOver, R(1))
        /\ RGt(ImpliedProbUnder, R(0)) /\ RLt(ImpliedProbUnder, R(1))

\* C22 witness: odds of +150 and -200 imply 0.4 and 2/3, which sum to
\* more than 1
C22_Witness ==
    /\ CalledRecommendation
    /\ Returned
    /\ call.betting_odds_over = 150
    /\ call.betting_odds_under = -200
    /\ ImpliedProbOver = Rat(2, 5)
    /\ ImpliedProbUnder = Rat(2, 3)

\* C23: over_probability is the number of samples strictly above the
\* line divided by the sample count; a sample equal to the line is not
\* over, and counts toward under_probability.
C23_TieCountsUnder ==
    (CalledSimulation /\ Returned) =>
        LET sims == ret.value.simulations
            n == Len(call.z)
            above == {i \in 1..n : RGt(sims[i], call.prop_line)}
            at_most == {i \in 1..n : RLe(sims[i], call.prop_line)}
        IN  /\ Len(sims) = n
            /\ ret.value.over_probability = Rat(Cardinality(above), n)
            /\ ret.value.under_probability = Rat(Cardinality(at_most), n)

\* C23 witness: every sample is on the line (std_dev 0, a prediction equal
\* to the line), none is over and all count as under
C23_Witness ==
    /\ CalledSimulation
    /\ Returned
    /\ \A i \in 1..Len(call.z) : ret.value.simulations[i] = call.prop_line
    /\ ret.value.over_probability = R(0)
    /\ ret.value.under_probability = R(1)

\* 0.25 * edge / (decimal_odds - 1) for the odds given
KellyFraction(edge, odds) ==
    RDiv(RMul(Rat(1, 4), edge), RSub(DecimalOdds(odds), R(1)))

\* C25: in every recommendation returned for valid odds, kelly_size is
\* above 0 exactly when the bet is OVER or UNDER: the chosen side has an
\* edge above 0.05 and kelly_size is that side's Kelly fraction, which is
\* positive, and NO BET has kelly_size 0.
C25_KellySizePositiveIffBet ==
    (CalledRecommendation /\ Returned) =>
        /\ RGt(ret.value.kelly_size, R(0)) <=> ret.value.bet \in {"OVER", "UNDER"}
        /\ ret.value.bet = "OVER" =>
               /\ RGt(ret.value.edge_over, Rat(5, 100))
               /\ ret.value.kelly_size = KellyFraction(ret.value.edge_over, call.betting_odds_over)
        /\ ret.value.bet = "UNDER" =>
               /\ RGt(ret.value.edge_under, Rat(5, 100))
               /\ ret.value.kelly_size = KellyFraction(ret.value.edge_under, call.betting_odds_under)
        /\ ret.value.bet = "NO BET" => ret.value.kelly_size = R(0)

\* C25 witness: an UNDER bet at +150 with no sample over the line: the
\* edge is 0.6 and the stake 0.25 * 0.6 / 1.5 = 0.1
C25_Witness ==
    /\ CalledRecommendation
    /\ Returned
    /\ ret.value.bet = "UNDER"
    /\ call.betting_odds_under = 150
    /\ ret.value.edge_under = Rat(3, 5)
    /\ ret.value.kelly_size = Rat(1, 10)

----------------------------------------------------------------------------
(* Claims about the feature extractor and the trend estimator, checked     *)
(* under SpecFeatures.                                                     *)

CalledFeatures == call.op = "engineer_features" /\ ret # Pending

\* The call returned the (features, game_log_recent, stat_col) tuple
ReturnedFeatures == CalledFeatures /\ Returned /\ ret.value.kind = "tuple"

\* The player is found and both fetches of the game log succeed
PlayerFetched ==
    /\ call.player_name \in known_players
    /\ call.fetch_recent = "ok"
    /\ call.fetch_full = "ok"

SupportedStatTypes ==
    {<<"p", "o", "i", "n", "t", "s">>, <<"r", "e", "b", "o", "u", "n", "d", "s">>,
     <<"a", "s", "s", "i", "s", "t", "s">>, <<"t", "h", "r", "e", "e", "s">>,
     <<"p", "t", "s", "+", "r", "e", "b", "s">>, <<"p", "t", "s", "+", "a", "s", "t", "s">>,
     <<"r", "e", "b", "s", "+", "a", "s", "t", "s">>}

\* C5: a stat type that is none of the seven selectors makes feature
\* extraction fail with UnsupportedStatTypeError (so it never reaches the
\* simulator, and is never analysed as points).
C5_UnsupportedStatTypeFails ==
    (CalledFeatures /\ PlayerFetched
        /\ lower(call.stat_type.s) \notin SupportedStatTypes) =>
        ret = Raise("UnsupportedStatTypeError")

\* C6: for an empty or absent game sequence the weighted recent average
\* is no number: the call fails with InsufficientDataError, or returns a
\* sentinel that no valid output equals; it does not return zero.
C6_EmptyTrendNotZero ==
    (call.op = "calculate_recent_trend" /\ ret # Pending
        /\ ColumnOf(call.game_log, call.stat_column) = <<>>) =>
        \/ ret = Raise("InsufficientDataError")
        \/ (Returned /\ IsNaN(ret.value))

\* C7: engineer_features returns no feature vector for a player who cannot
\* be resolved (it fails with PlayerNotFoundError) or whose season window
\* has no games (it fails with InsufficientDataError).
C7_NoFeaturesWithoutPlayerOrGames ==
    CalledFeatures =>
        /\ call.player_name \notin known_players =>
               ret = Raise("PlayerNotFoundError")
        /\ (PlayerFetched /\ call.season_log = <<>>) =>
               ret = Raise("InsufficientDataError")

\* The opponent string matches no team, or the defence lookup fails (the
\* request raises, or the reply has no row of the team).
OpponentUnresolved == call.opponent_team = Str(<<"X", "Y", "Z">>)

DefenseLookupFails ==
    \/ call.team_stats.kind = "raises"
    \/ call.team_stats.rows = <<>>

\* C10: with an opponent that cannot be resolved, or whose defence lookup
\* fails, engineer_features does not raise, and the features it returns
\* carry exactly the fallback constants 112.0, 99.0 and 112.0.
C10_OpponentFallbackConstants ==
    CalledFeatures =>
        /\ ret.kind # "raise"
        /\ (PlayerFetched /\ (OpponentUnresolved \/ DefenseLookupFails)) =>
               /\ ReturnedFeatures
               /\ ret.value.features.opp_def_rating = R(112)
               /\ ret.value.features.opp_pace = R(99)
               /\ ret.value.features.opp_pts_allowed = R(112)

\* C10 witness: the opponent "XYZ" resolves to no team although the lookup
\* would answer, and the features carry the three constants.
C10_Witness ==
    /\ ReturnedFeatures
    /\ OpponentUnresolved
    /\ ~DefenseLookupFails
    /\ ret.value.features.opp_def_rating = R(112)
    /\ ret.value.features.opp_pace = R(99)
    /\ ret.value.features.opp_pts_allowed = R(112)
    /\ ret.value.features.opp_team_abbr_resolved = <<"X", "Y", "Z">>

\* C11: the standard deviation that the features hand to the simulator is
\* never zero: for every game log, one of equal recent values included, it
\* is floored to a positive minimum.
C11_StdDevFloored ==
    ReturnedFeatures => RGt(ret.value.features.std_dev, R(0))

----------------------------------------------------------------------------
(* Claims about the two windows.                                           *)

\* C8: when the prediction raises, no made-up prediction is produced: the
\* history holds no entry of random values, the plot shows none, and the
\* request ends in an error status (checked under SpecApp).
C8_NoFabricatedPrediction ==
    /\ \A i \in DOMAIN result_list : ~result_list[i].demo
    /\ status_label.kind # "warning"

\* The pane shows a recommendation or an error message
ShowsOutcome ==
    \E i \in DOMAIN results_text : results_text[i].kind \in {"results", "error"}

\* C9: every request started by analyze_prop ends with the pane showing
\* the recommendation or an error message; the pane does not stay on the
\* 'Analyzing...' placeholder (checked under FairSpecAnalyzer).
C9_RequestEndsInOutcome == (results_text = <<Placeholder>>) ~> ShowsOutcome

\* A direct call of calculate_recent_trend on a log of at least one game
\* has returned
TrendReturned ==
    /\ call.op = "calculate_recent_trend"
    /\ ret # Pending
    /\ call.game_log # None
    /\ Len(call.game_log.rows) >= 1

Min(a, b) == IF a <= b THEN a ELSE b

\* sum of values[i] * weights[i] over the first m games
WeightedSum(values, m) == RSum([i \in 1..m |-> RMul(values[i], weights[i])])

\* The value returned is the weighted mean of the first min(n, 5) values
\* under the first min(n, 5) weights divided by their sum, and with 5
\* games or more the weights are used unchanged
TrendIsWeightedMean ==
    LET values == Column(call.game_log.rows, call.stat_column)
        m == Min(Len(values), 5)
    IN  /\ ret.kind = "return"
        /\ ret.value = RDiv(WeightedSum(values, m), RSum(HeadN(weights, m)))
        /\ Len(values) >= 5 => ret.value = WeightedSum(values, 5)

FixtureTrendCalled ==
    /\ TrendReturned
    /\ call.game_log.rows = Fixture(5)
    /\ call.stat_column = "PTS"

\* C16 as stated: for n >= 1 games, most recent first,
\* calculate_recent_trend returns the weighted mean of the first min(n, 5)
\* values under the first min(n, 5) weights of [0.35, 0.25, 0.20, 0.15,
\* 0.05] renormalised, the weights unchanged with 5 games or more, and
\* [30, 25, 28, 22, 20] gives 26.35 (checked under SpecFeatures).
C16_FixtureGives2635 ==
    TrendReturned =>
        /\ TrendIsWeightedMean
        /\ FixtureTrendCalled => ret.value = Rat(2635, 100)

\* C16 as amended: the same weighted mean, and [30, 25, 28, 22, 20] gives
\* 30*.35 + 25*.25 + 28*.20 + 22*.15 + 20*.05 = 26.65 (checked under
\* SpecFeatures).
C16_RecentTrendWeightedMean ==
    TrendReturned =>
        /\ TrendIsWeightedMean
        /\ FixtureTrendCalled => ret.value = Rat(2665, 100)

\* The fixture has been averaged
C16_Witness == FixtureTrendCalled /\ ret.value = Rat(533, 20)

\* A direct call of calculate_variance has returned or raised
VarianceCalled == call.op = "calculate_variance" /\ ret # Pending

\* The sample variance of at least two values: the squared deviations from
\* the mean, summed and divided by their number less one
SampleVariance(values) ==
    RDiv(RSum([i \in 1..Len(values) |->
                 RMul(RSub(values[i], RMean(values)), RSub(values[i], RMean(values)))]),
         R(Len(values) - 1))

\* r is the square root of q to the precision 1 / SqrtScale of the model's
\* numbers: r >= 0, r * r >= q, and no smaller such number has that
IsRootOf(r, q) ==
    /\ RGe(r, R(0))
    /\ RGe(RMul(r, r), q)
    /\ \/ r = R(0)
       \/ RLt(RMul(RSub(r, Rat(1, SqrtScale)), RSub(r, Rat(1, SqrtScale))), q)

\* C17: calculate_variance returns 5.0 when the game log is absent or has
\* fewer than 3 games, and otherwise the sample standard deviation of the
\* most recent min(n, 10) values; it raises for no log length (checked
\* under SpecFeatures).
C17_VarianceDefaultOrSampleStd ==
    VarianceCalled =>
        /\ ret.kind = "return"
        /\ (call.game_log = None \/ Len(call.game_log.rows) < 3) => ret.value = R(5)
        /\ (call.game_log # None /\ Len(call.game_log.rows) >= 3) =>
               IsRootOf(ret.value,
                   SampleVariance(HeadN(Column(call.game_log.rows, call.stat_column), 10)))

\* A log of more than 10 games whose first 10 deviate more than the whole:
\* one game of 20 points and then 22 throughout gives 0.63, and 0.5 over
\* all 16 games
C17_Witness ==
    /\ VarianceCalled
    /\ call.game_log = DataFrame(Season(16, 1))
    /\ call.stat_column = "PTS"
    /\ RGt(ret.value, Rat(1, 2))
    /\ RLt(ret.value, R(1))

\* The stat selector of the call as the mapping reads it
Selector == lower(call.stat_type.s)

\* The two columns a combined selector names
CombinedColumns ==
    CASE Selector = <<"p", "t", "s", "+", "r", "e", "b", "s">> -> <<"PTS", "REB">>
      [] Selector = <<"p", "t", "s", "+", "a", "s", "t", "s">> -> <<"PTS", "AST">>
      [] Selector = <<"r", "e", "b", "s", "+", "a", "s", "t", "s">> -> <<"REB", "AST">>
      [] OTHER -> <<>>

\* The column a single selector names; a selector the mapping does not
\* hold is read as points (C5)
SingleColumn ==
    CASE Selector = <<"r", "e", "b", "o", "u", "n", "d", "s">> -> "REB"
      [] Selector = <<"a", "s", "s", "i", "s", "t", "s">> -> "AST"
      [] Selector = <<"t", "h", "r", "e", "e", "s">> -> "FG3M"
      [] OTHER -> "PTS"

\* The target stat of one game
GameTarget(row) ==
    IF CombinedColumns # <<>>
    THEN RAdd(R(row[CombinedColumns[1]]), R(row[CombinedColumns[2]]))
    ELSE R(row[SingleColumn])

\* The target stat of every game of the full season window, and of the
\* 15-game recent window
FullTargets == [i \in 1..Len(call.season_log) |-> GameTarget(call.season_log[i])]

RecentTargets == HeadN(FullTargets, 15)

\* C18: season_avg is the simple mean of the target stat over all records
\* of the full season window and games_played is the number of records of
\* that window, whatever the season's length (checked under SpecFeatures).
C18_SeasonAverageOverFullWindow ==
    ReturnedFeatures =>
        /\ ret.value.features.season_avg = RMean(FullTargets)
        /\ ret.value.features.games_played = Len(call.season_log)

\* A season longer than the recent window, whose mean differs from the
\* window's
C18_Witness ==
    /\ ReturnedFeatures
    /\ Len(call.season_log) > 15
    /\ ret.value.features.games_played = Len(call.season_log)
    /\ ret.value.features.season_avg = RMean(FullTargets)
    /\ RMean(FullTargets) # RMean(RecentTargets)

\* C19: for a combined selector the target stat of every game is the sum
\* of the game's two named columns, taken per game before averaging, in
\* the recent window (the TARGET_STAT column of the returned log and
\* recent_avg_10) and in the full window (season_avg); for a single
\* selector it is the mapped column (checked under SpecFeatures).
C19_TargetStatPerGame ==
    (ReturnedFeatures /\ Selector \in SupportedStatTypes) =>
        /\ Len(ret.value.game_log_recent.rows) = Len(RecentTargets)
        /\ \A i \in 1..Len(RecentTargets) :
               LET row == ret.value.game_log_recent.rows[i]
               IN  IF CombinedColumns # <<>>
                   THEN row.TARGET_STAT = RAdd(R(row[CombinedColumns[1]]), R(row[CombinedColumns[2]]))
                   ELSE row.TARGET_STAT = R(row[SingleColumn])
        /\ ret.value.features.recent_avg_10 = RMean(HeadN(RecentTargets, 10))
        /\ ret.value.features.season_avg = RMean(FullTargets)
        /\ ret.value.stat_col = (IF CombinedColumns # <<>> THEN "TARGET_STAT" ELSE SingleColumn)

\* PTS = [20, 22] and REB = [10, 8] under pts+rebs give TARGET_STAT = [30, 30]
C19_Witness ==
    /\ ReturnedFeatures
    /\ Selector = <<"p", "t", "s", "+", "r", "e", "b", "s">>
    /\ call.season_log = <<RowA, RowB>>
    /\ ret.value.game_log_recent.rows[1].TARGET_STAT = R(30)
    /\ ret.value.game_log_recent.rows[2].TARGET_STAT = R(30)
    /\ ret.value.features.season_avg = R(30)

\* C20: hot_cold_factor is (the mean of the 3 most recent target values -
\* season_avg) / (std_dev + 1), and the denominator is not zero because
\* std_dev is never below 0 (checked under SpecFeatures).
C20_HotColdFactor ==
    ReturnedFeatures =>
        LET f == ret.value.features
        IN  /\ RGe(f.std_dev, R(0))
            /\ ~IsZero(RAdd(f.std_dev, R(1)))
            /\ f.hot_cold_factor =
                   RDiv(RSub(RMean(HeadN(RecentTargets, 3)), f.season_avg),
                        RAdd(f.std_dev, R(1)))

\* std_dev is 0 and the factor is computed all the same
C20_Witness ==
    /\ ReturnedFeatures
    /\ IsZero(ret.value.features.std_dev)
    /\ ret.value.features.hot_cold_factor = R(0)

----------------------------------------------------------------------------
(* Claims about a session of calls and about the random source.            *)

RunsOf(op) == {i \in DOMAIN runs : runs[i].op = op}

\* What C13 compares of two simulation results
Summary(mc) ==
    <<mc.over_probability, mc.expected_value, mc.median_value, mc.ci_95_lower, mc.ci_95_upper>>

\* C13: two runs of the simulator with identical inputs return identical
\* results (over_probability, expected value, median, interval bounds);
\* the simulator takes no seed or source, so its inputs are all a caller
\* can make identical (checked under SpecSession).
C13_SameInputsSameResults ==
    \A i, j \in RunsOf("run_monte_carlo_simulation") :
        runs[i].args = runs[j].args =>
            Summary(runs[i].result.value) = Summary(runs[j].result.value)

\* C14: no two concurrent invocations of the simulator draw from one
\* shared source: a thread started earlier never finds the generator in
\* the state that the simulation of a thread started after it has left,
\* nor the other way round (checked under SpecAnalyzer).
C14_IndependentStreams ==
    \A t, u \in DOMAIN threads :
        (t # u /\ threads[t].drew # NoDraw /\ threads[u].drew # NoDraw) =>
            threads[t].drew.before # threads[u].drew.after

\* C15: no operation of the analyzer changes the analyzer's fields or the
\* features dict it is given, and the result of a call does not depend on
\* earlier calls: the same operation with the same arguments gives the
\* same result (checked under SpecSession).
C15_NoStateAcrossCalls ==
    /\ analyzer = Constructed
    /\ \A i \in RunsOf("calculate_betting_recommendation") :
           runs[i].features_after = runs[i].args.features
    /\ \A i, j \in DOMAIN runs :
           (runs[i].op = runs[j].op /\ runs[i].args = runs[j].args) =>
               runs[i].result = runs[j].result

----------------------------------------------------------------------------
(* Claims about the order of the steps of one analysis and about           *)
(* overlapping analyses, checked under SpecAnalyzer.                       *)

\* The requests that go to the remote service
RemoteLookups == {"PlayerGameLog", "LeagueDashTeamStats"}

\* The steps of the core pipeline
PipelineSteps == {"predicted_value", "run_monte_carlo_simulation", "american_to_decimal", "edge"}

\* C24: within one analysis request every remote lookup (the two game-log
\* requests and the request for the opponent's defence, with the team's
\* resolution) comes before the prediction adjustment, the simulation and
\* the edge calculation: no step of the recommendation is followed by a
\* remote lookup, and a request that reached the recommendation has made
\* its three lookups before the first of its steps.
C24_LookupsBeforePipeline ==
    \A t \in DOMAIN threads :
        LET trace == threads[t].trace
            steps == {i \in DOMAIN trace : trace[i] \in PipelineSteps}
        IN  \A i \in steps :
                /\ \A j \in DOMAIN trace : j > i => trace[j] \notin RemoteLookups
                /\ Cardinality({j \in 1..(i - 1) : trace[j] = "PlayerGameLog"}) = 2
                /\ Cardinality({j \in 1..(i - 1) : trace[j] = "LeagueDashTeamStats"}) = 1
                /\ \E j \in 1..(i - 1) : trace[j] = "_resolve_team"

\* C24 witness: a thread has fetched, computed its recommendation and
\* finished
C24_Witness ==
    \E t \in DOMAIN threads :
        /\ threads[t].pc = "done"
        /\ threads[t].outcome.kind = "display_results"
        /\ threads[t].trace =
               <<"find_players_by_full_name", "PlayerGameLog",
                 "find_players_by_full_name", "PlayerGameLog",
                 "_resolve_team", "LeagueDashTeamStats", "hot_cold_factor",
                 "predicted_value", "run_monte_carlo_simulation",
                 "american_to_decimal", "edge">>

\* Every thread has finished and the main loop has run every callback
AllShown ==
    /\ after_queue = <<>>
    /\ \A t \in DOMAIN threads : threads[t].pc = "done"

\* What display_results shows for the callback a thread has given
Shown(cb) ==
    Output(cb.player_name, cb.stat_type, cb.prop_line, cb.features, cb.stat_col, cb.recommendation)

\* C26: when analyze_prop is invoked a second time before the thread of
\* the first invocation has finished, the pane finally shows the outcome
\* of the second invocation, whatever order the threads finish in (stated
\* for a second analysis that succeeds: its results are in the pane).
C26_LastRequestShown ==
    (AllShown /\ Len(threads) = 2 /\ threads[2].overlaps
        /\ threads[2].outcome.kind = "display_results") =>
        \E i \in DOMAIN results_text : results_text[i] = Shown(threads[2].outcome)

----------------------------------------------------------------------------
(* Claims about the adjustments of predict_weighted_player_stat, checked   *)
(* under SpecPredict.                                                      *)

PredictCalled == call.op = "predict_weighted_player_stat" /\ ret # Pending

\* C29: for every opponent points average and every pair of home and away
\* averages of the player, the defence adjustment applied to each
\* simulated prediction lies in [0.9, 1.1] and the home/away adjustment in
\* [0.95, 1.1]; each prediction is the forest's value times the two.
C29_AdjustmentsClamped ==
    PredictCalled =>
        /\ RGe(ret.defense_adjustment, Rat(9, 10))
        /\ RLe(ret.defense_adjustment, Rat(11, 10))
        /\ RGe(ret.home_away_adjustment, Rat(95, 100))
        /\ RLe(ret.home_away_adjustment, Rat(11, 10))
        /\ ret.outcome.kind = "return"
        /\ \A i \in 1..PredictSimulations :
               ret.outcome.value.predictions[i] =
                   RMul(RMul(RMul(call.env.predicted[i], ret.defense_adjustment),
                             ret.home_away_adjustment),
                        call.env.volatility[i])

\* C29 witness: an opponent allowing 150 points (1 + 0.7 * (-40 / 120) is
\* below 0.9) and a home game of a player whose away average is 0
C29_Witness ==
    /\ PredictCalled
    /\ call.env.opp_pts = R(150)
    /\ call.home_game
    /\ call.env.away_stat = R(0)
    /\ call.env.home_stat = R(25)
    /\ ret.defense_adjustment = Rat(9, 10)
    /\ ret.home_away_adjustment = Rat(11, 10)

----------------------------------------------------------------------------
(* Claims about _resolve_team, checked under SpecResolve.                  *)

ResolveCalled == call.op = "_resolve_team" /\ ret # Pending

\* The input without its leading and trailing blanks, in lower case
RawLower == lower(strip(call.team_input.s))

\* The rows of the team table
Teams == {all_teams[i] : i \in DOMAIN all_teams}

\* The match score of a team: exact full name 100, abbreviation 95,
\* nickname 90, then the input as a piece of the full name 80, of the
\* nickname 70, of the city 60, and 0 for no match
MatchScore(t) ==
    CASE lower(t.full_name) = RawLower -> 100
      [] lower(t.full_name) # RawLower /\ lower(t.abbreviation) = RawLower -> 95
      [] lower(t.full_name) # RawLower /\ lower(t.abbreviation) # RawLower
            /\ lower(t.nickname) = RawLower -> 90
      [] OTHER ->
            IF IsSubstring(RawLower, lower(t.full_name)) THEN 80
            ELSE IF IsSubstring(RawLower, lower(t.nickname)) THEN 70
            ELSE IF IsSubstring(RawLower, lower(t.city)) THEN 60
            ELSE 0

\* The teams the two name lookups find, or every team when they find none
Candidates ==
    LET found == {t \in Teams : IsSubstring(RawLower, lower(t.full_name))
                                   \/ IsSubstring(RawLower, lower(t.nickname))}
    IN  IF found = {} THEN Teams ELSE found

\* What _resolve_team returns for a team
TeamOf(t) ==
    [kind |-> "team", team_id |-> t.id, abbr |-> upper(t.abbreviation), full_name |-> t.full_name]

\* C28: _resolve_team returns None for None and for an empty or blank
\* input; for an input of 3 characters that is a team's abbreviation,
\* whatever its case, that team; otherwise a candidate of the highest match
\* score, and None when that score is 0.
C28_ResolveTeam ==
    ResolveCalled =>
        /\ ret.kind = "return"
        /\ IF call.team_input = None THEN ret.value = None
           ELSE IF RawLower = <<>> THEN ret.value = None
           ELSE IF Len(RawLower) = 3 /\ \E t \in Teams : lower(t.abbreviation) = RawLower
           THEN \E t \in Teams : lower(t.abbreviation) = RawLower /\ ret.value = TeamOf(t)
           ELSE LET best == CHOOSE n \in {MatchScore(t) : t \in Candidates} :
                                \A t \in Candidates : MatchScore(t) <= n
                IN  IF best = 0 THEN ret.value = None
                    ELSE \E t \in Candidates : MatchScore(t) = best /\ ret.value = TeamOf(t)

\* C28 witness: "nets" is the nickname of the Brooklyn Nets (90) and a
\* piece of "Charlotte Hornets" (80): the Nets are returned
C28_Witness ==
    /\ ResolveCalled
    /\ call.team_input # None
    /\ RawLower = <<"n", "e", "t", "s">>
    /\ Cardinality(Candidates) = 2
    /\ ret.value # None
    /\ ret.value.team_id = 3

----------------------------------------------------------------------------
(* Claims about the predict button, checked under SpecApp.                 *)

MissingField == [kind |-> "error", text |-> "Please fill in all required fields."]

\* One step of the window
ButtonStep ==
    \* a request is scheduled by an enabled button only, which it disables,
    \* and it is the only one scheduled
    /\ Len(after_calls') > Len(after_calls) =>
          /\ predict_button = "normal" /\ predict_button' = "disabled"
          /\ after_calls = <<>> /\ Len(after_calls') = 1
          /\ result_list' = result_list
    \* the scheduled run_prediction enables the button, whatever its path
    /\ Len(after_calls') < Len(after_calls) =>
          /\ predict_button = "disabled" /\ predict_button' = "normal"
          /\ after_calls' = <<>>
    \* a click with a missing field changes the status only
    /\ (status_label' = MissingField /\ status_label # MissingField) =>
          /\ predict_button = "normal" /\ predict_button' = "normal"
          /\ after_calls' = after_calls
          /\ result_list' = result_list
    \* the button is disabled exactly while a request is scheduled
    /\ predict_button' = "disabled" <=> after_calls' # <<>>

============================================================================
